---- MODULE Spec2Model ----
(***************************************************************************)
(* A model of the FAQ retrieval-augmented-generation tool:                 *)
(*   - build-index  (src/src/build-index/index.ts, env.ts)                 *)
(*   - query        (src/src/query/index.ts, vector.ts, query/env.ts)      *)
(*   - the query log (src/src/logging/index.ts)                            *)
(*   - the evaluator (src/src/evaluator.ts)                                *)
(*   - the provider clients (src/unnamed/part_001)                         *)
(*   - the sample run (src/unnamed/part_000)                               *)
(* Hosted providers, the HNSW library and the file system are the          *)
(* environment: every call into them either succeeds or fails, chosen      *)
(* nondeterministically.                                                   *)
(***************************************************************************)
EXTENDS Integers, Sequences, FiniteSets, TLC

\* ------------------------------------------------------------------ bounds
\* The wall clock runs from 0 to MaxClock (milliseconds, as Date reports).
MaxClock == 2
\* Query invocations one CLI process sequence may issue.
MaxQueries == 2
\* The largest number written into CHUNK_SIZE, CHUNK_OVERLAP or RETRIEVAL_K.
MaxSetting == 11
\* The most documents an index holds, and the largest RETRIEVAL_K of a query.
MaxChunks == 4
MaxK == 4
\* The most characters of prose before and after the object of a completion.
MaxProse == 2
\* The longest document chunked, and the largest CHUNK_SIZE it is chunked
\* with.
MaxDocument == 4
MaxChunkSize == 4
\* Runs of build-index followed one after the other on a document.
MaxBuilds == 2
\* The longest document and the largest CHUNK_SIZE of these runs.
MaxBuildDocument == 3
MaxBuildChunkSize == 2

\* The operating-system processes that run query(): Spec runs them one
\* after the other out of "p1"; SpecRace runs "p1" and "p2" at once.
Procs == {"p1", "p2"}

\* ------------------------------------------------------- JSON and the files
\* A JavaScript value that is undefined (or a field that is absent).
Undefined == [defined |-> FALSE, score |-> 0]
\* An EvaluationResult object (src/src/types.ts:39-47).
EvaluationResult(s) == [defined |-> TRUE, score |-> s]

\* JSON values as JSON.parse returns them.
JsonArray(items) == [t |-> "array", items |-> items]
JsonObject == [t |-> "object", items |-> <<>>]

\* What a path holds: nothing, text that is no JSON, or the text of a JSON
\* value written with some indentation.
NoFile == [tag |-> "none", val |-> JsonObject, indent |-> 0]
Garbage == [tag |-> "garbage", val |-> JsonObject, indent |-> 0]
JsonText(v, ind) == [tag |-> "json", val |-> v, indent |-> ind]

\* fs.existsSync(OUTPUT_FILE)
FileExists(f) == f.tag # "none"

\* The array a file holds, when it holds the text of one.
IsArrayFile(f) == f.tag = "json" /\ f.val.t = "array"
Items(f) == f.val.items

\* Mutant of JSONparse: text that is no JSON reads as an empty array.
JSONparseLenient(text) ==
  IF text.tag = "json" THEN [ok |-> TRUE, val |-> text.val]
  ELSE [ok |-> TRUE, val |-> JsonArray(<<>>)]

\* JSON.parse(text): the value, or a SyntaxError.
JSONparse(text) ==
  IF text.tag = "json" THEN [ok |-> TRUE, val |-> text.val]
  ELSE [ok |-> FALSE, val |-> JsonObject]

\* JSON.stringify(value, null, 2)
JSONstringify(v) == JsonText(v, 2)

\* One element of the log array: a LoggedQueryOutput (src/src/types.ts and
\* logging/index.ts:23-27). q identifies the query (user_question and the
\* response built for it), ts is the timestamp, evaluation is Undefined when
\* the field is absent.
LoggedQueryOutput(q, ts, ev) == [q |-> q, ts |-> ts, evaluation |-> ev]

\* An entry written before the model starts.
OldEntry == LoggedQueryOutput(0, 0, Undefined)

VARIABLES
  clock,        \* what new Date() reads
  vectorStore,  \* the directory at VECTOR_STORE_PATH
  outDir,       \* whether ./outputs exists
  logFile,      \* ./outputs/sample_queries.json
  build,        \* the build-index process
  proc,         \* the query() call of each process
  issued,       \* number of queries issued so far
  appendCalls,  \* history: the logQueryOutput calls, in call order
  initialLog,   \* history: the log file the model started with
  env,          \* process.env: the value of each variable, "" when unset
  docOnDisk,    \* whether a file exists at the path DOCUMENT_PATH names
  validation,   \* what the validator of the entry point that ran returned
  entry,        \* the entry point that ran: where it is, its exit code
  rag,          \* the data of one query: index, k, question, documents, prompt
  evaluator,    \* one call of evaluateResponse: the completion, the outcome
  chunker,      \* the chunking step of build-index: document, chunks
  chunkInfo,    \* the file chunk-info.json beside the vector store
  docstore,     \* the documents of the index persisted in the vector store
  provider,     \* one call through a provider client: its requests
  sample        \* the sample run: its position in SAMPLE_QUESTIONS

\* The data the pipelines work on, beside their control state.
dataVars == <<rag, evaluator, chunker>>

\* What the detailed views of the build, of the provider clients and of the
\* sample run add.
otherVars == <<chunkInfo, docstore, provider, sample>>

envVars == <<env, docOnDisk, validation, entry, dataVars, otherVars>>

vars == <<clock, vectorStore, outDir, logFile, build, proc, issued,
          appendCalls, initialLog, envVars>>

\* ------------------------------------------------------------ vector store
\* The directory at VECTOR_STORE_PATH: absent, created but holding no files
\* ("empty"), holding some files of a save that has not finished
\* ("partial"), or holding a whole index ("complete").
StoreAbsent == [exists |-> FALSE, state |-> "empty"]
StoreDir(st) == [exists |-> TRUE, state |-> st]

\* fs.existsSync(env.vectorStorePath)
StoreExists(vs) == vs.exists
\* A whole index is persisted at the path.
StoreComplete(vs) == vs.exists /\ vs.state = "complete"

\* ------------------------------------------------------------- query state
\* A process that has not called query() yet, with n invocations left.
IdleProc(n) ==
  [pc |-> "idle", question |-> 0, enableEvaluation |-> FALSE,
   response |-> FALSE, evaluation |-> Undefined,
   queries |-> JsonArray(<<>>),
   result |-> "none", error |-> "none",
   \* history of this call
   clients |-> 0, embedCalls |-> 0, completionCalls |-> 0,
   evaluatorCalls |-> 0, evalFailed |-> FALSE,
   logCalls |-> 0, logError |-> "none", logWrote |-> FALSE,
   logAtStart |-> NoFile, logAtCall |-> NoFile, callIndex |-> 0,
   providerFailed |-> FALSE,
   left |-> n]

\* An exception leaves query(): the promise rejects with e.
Thrown(r, e) == [r EXCEPT !.pc = "done", !.result = "threw", !.error = e]

\* main() (query/index.ts:282-291): the next invocation calls query().
QueryStart(p) ==
  /\ proc[p].pc \in {"idle", "done"}
  /\ proc[p].left > 0
  /\ \E ev \in BOOLEAN :
       proc' = [proc EXCEPT ![p] =
                  [IdleProc(proc[p].left - 1) EXCEPT
                     !.pc = "loadVectorStore", !.question = issued + 1,
                     !.enableEvaluation = ev, !.logAtStart = logFile]]
  /\ issued' = issued + 1
  /\ UNCHANGED <<clock, vectorStore, outDir, logFile, build, appendCalls,
                 initialLog, envVars>>

\* loadVectorStore up to the await (query/vector.ts:9-20): the existence
\* check, then the embeddings client, then HNSWLib.load is started.
LoadVectorStore(p) ==
  /\ proc[p].pc = "loadVectorStore"
  /\ LET r == proc[p] IN
     proc' = [proc EXCEPT ![p] =
                IF ~StoreExists(vectorStore)
                  THEN Thrown(r, "NotFound")
                  ELSE [r EXCEPT !.pc = "hnswLoad", !.clients = @ + 1]]
  /\ UNCHANGED <<clock, vectorStore, outDir, logFile, build, issued,
                 appendCalls, initialLog, envVars>>

\* Mutant of HNSWLoad: a load that fails removes the directory it could not
\* read.
HNSWLoadRemoving(p) ==
  /\ proc[p].pc = "hnswLoad"
  /\ \/ /\ StoreComplete(vectorStore)
        /\ proc' = [proc EXCEPT ![p].pc = "retrieve", ![p].clients = @ + 1]
        /\ vectorStore' = vectorStore
     \/ /\ proc' = [proc EXCEPT ![p] = Thrown(@, "LoadError")]
        /\ vectorStore' = StoreAbsent
  /\ UNCHANGED <<clock, outDir, logFile, build, issued, appendCalls,
                 initialLog, envVars>>

\* HNSWLib.load settles (query/vector.ts:20): it reads the files of the
\* directory and fails when one is missing or unreadable. Then query()
\* builds the retriever and the chat client (query/index.ts:226-238).
HNSWLoad(p) ==
  /\ proc[p].pc = "hnswLoad"
  /\ \/ /\ StoreComplete(vectorStore)
        /\ proc' = [proc EXCEPT ![p].pc = "retrieve", ![p].clients = @ + 1]
     \/ proc' = [proc EXCEPT ![p] = Thrown(@, "LoadError")]
  /\ UNCHANGED <<clock, vectorStore, outDir, logFile, build, issued,
                 appendCalls, initialLog, envVars>>

\* Mutant of OnProviderError: the error is swallowed and the query goes on
\* with an empty answer.
OnProviderErrorContinue(r) ==
  [r EXCEPT !.response = TRUE,
            !.pc = IF r.enableEvaluation THEN "evaluate"
                   ELSE "logQueryOutput"]

\* What query() does when the embedding or the completion request of the
\* answer fails: nothing catches it (query/index.ts:239, 251).
OnProviderError(r) == Thrown(r, "ProviderError")

\* await retriever.invoke(question) (query/index.ts:239): one call of the
\* embeddings client for the question. The requests a call sends are
\* followed in SpecProvider.
Retrieve(p) ==
  /\ proc[p].pc = "retrieve"
  /\ \E ok \in BOOLEAN :
       LET r == [proc[p] EXCEPT !.embedCalls = @ + 1,
                                !.providerFailed = ~ok] IN
       proc' = [proc EXCEPT ![p] =
                  IF ok THEN [r EXCEPT !.pc = "generate"]
                  ELSE OnProviderError(r)]
  /\ UNCHANGED <<clock, vectorStore, outDir, logFile, build, issued,
                 appendCalls, initialLog, envVars>>

\* Mutant of Generate: the evaluation is started but not awaited, so the
\* log call follows the answer at once.
GenerateWithoutAwaitingEvaluation(p) ==
  /\ proc[p].pc = "generate"
  /\ \E ok \in BOOLEAN :
       LET r == [proc[p] EXCEPT !.completionCalls = @ + 1,
                                !.providerFailed = ~ok] IN
       proc' = [proc EXCEPT ![p] =
                  IF ok
                    THEN [r EXCEPT !.response = TRUE,
                                   !.pc = "logQueryOutput"]
                    ELSE OnProviderError(r)]
  /\ UNCHANGED <<clock, vectorStore, outDir, logFile, build, issued,
                 appendCalls, initialLog, envVars>>

\* await ragChain.invoke(question) (query/index.ts:241-261): one call of
\* the chat client, then the QueryResponse is built.
Generate(p) ==
  /\ proc[p].pc = "generate"
  /\ \E ok \in BOOLEAN :
       LET r == [proc[p] EXCEPT !.completionCalls = @ + 1,
                                !.providerFailed = ~ok] IN
       proc' = [proc EXCEPT ![p] =
                  IF ok
                    THEN [r EXCEPT !.response = TRUE,
                                   !.pc = IF r.enableEvaluation
                                            THEN "evaluate"
                                            ELSE "logQueryOutput"]
                    ELSE OnProviderError(r)]
  /\ UNCHANGED <<clock, vectorStore, outDir, logFile, build, issued,
                 appendCalls, initialLog, envVars>>

\* The outcomes of evaluateResponse (evaluator.ts:12-59): the provider
\* fails, the text holds no {...}, the match is no JSON, or a result.
EvalOutcomes == {"ok", "providerError", "noJson", "invalidJson"}

\* Mutant of OnEvaluationError: no try around the evaluation.
OnEvaluationErrorRethrow(r) ==
  [r EXCEPT !.evalFailed = TRUE, !.pc = "done", !.result = "threw",
            !.error = "EvaluationError"]

\* Mutant of OnEvaluationError: the log call sits inside the try, so a
\* failed evaluation skips it.
OnEvaluationErrorSkipLog(r) ==
  [r EXCEPT !.evaluation = Undefined, !.evalFailed = TRUE, !.pc = "return"]

\* The catch of query/index.ts:269-271: a warning, evaluation stays
\* undefined, and the query goes on to the log.
OnEvaluationError(r) ==
  [r EXCEPT !.evaluation = Undefined, !.evalFailed = TRUE,
            !.pc = "logQueryOutput"]

\* if (enableEvaluation) { try { evaluation = await evaluateResponse(...) }
\* catch ... } (query/index.ts:264-272): a chat client, one call of it.
Evaluate(p) ==
  /\ proc[p].pc = "evaluate"
  /\ \E o \in EvalOutcomes :
       LET r == [proc[p] EXCEPT !.evaluatorCalls = @ + 1,
                                !.clients = @ + 1,
                                !.completionCalls = @ + 1] IN
       proc' = [proc EXCEPT ![p] =
                  IF o = "ok"
                    THEN [r EXCEPT !.evaluation = EvaluationResult(8),
                                   !.pc = "logQueryOutput"]
                    ELSE OnEvaluationError(r)]
  /\ UNCHANGED <<clock, vectorStore, outDir, logFile, build, issued,
                 appendCalls, initialLog, envVars>>

\* ------------------------------------------------------------ the query log
\* let queries = [] (logging/index.ts:17)
EmptyQueries == JsonArray(<<>>)

\* Mutant of Timestamp: a time read once, when the module was loaded.
TimestampAtLoad(clk) == 0

\* new Date().toISOString() (logging/index.ts:25)
Timestamp(clk) == clk

\* Mutant of BuildLoggedOutput: every record carries an evaluation field,
\* with a score of 0 when there was no evaluation.
BuildLoggedOutputAlwaysScored(r, clk) ==
  LoggedQueryOutput(r.question, Timestamp(clk),
                    IF r.evaluation.defined THEN r.evaluation
                    ELSE EvaluationResult(0))

\* { ...response, timestamp, ...(evaluation && { evaluation }) }
\* (logging/index.ts:23-27)
BuildLoggedOutput(r, clk) ==
  LoggedQueryOutput(r.question, Timestamp(clk),
                    IF r.evaluation.defined THEN r.evaluation
                    ELSE Undefined)

\* Mutant of Push: the array is started afresh with the new entry.
PushOntoEmpty(queries, e) == JsonArray(<<e>>)

\* queries.push(loggedOutput) on an array (logging/index.ts:29)
Push(queries, e) == JsonArray(Append(queries.items, e))

\* Mutant of LogCatch: the error is logged and thrown again.
LogCatchRethrow(r, step) ==
  [r EXCEPT !.logError = step, !.pc = "done", !.result = "threw",
            !.error = "LogIOError"]

\* catch (error) { console.error(...) } (logging/index.ts:32-34): the
\* function returns normally.
LogCatch(r, step) == [r EXCEPT !.logError = step, !.pc = "return"]

\* logQueryOutput(response, evaluation) is called (query/index.ts:274) and
\* makes sure of the directory (logging/index.ts:13-15).
LogMkdir(p) ==
  /\ proc[p].pc = "logQueryOutput"
  /\ appendCalls' = Append(appendCalls,
                           [q |-> proc[p].question, at |-> clock,
                            ok |-> FALSE])
  /\ LET r == [proc[p] EXCEPT !.logCalls = @ + 1, !.logAtCall = logFile,
                              !.callIndex = Len(appendCalls) + 1] IN
     IF outDir
       THEN /\ proc' = [proc EXCEPT ![p] = [r EXCEPT !.pc = "log_read"]]
            /\ outDir' = outDir
       ELSE \E ok \in BOOLEAN :
              /\ outDir' = ok
              /\ proc' = [proc EXCEPT ![p] =
                            IF ok THEN [r EXCEPT !.pc = "log_read"]
                            ELSE LogCatch(r, "mkdir")]
  /\ UNCHANGED <<clock, vectorStore, logFile, build, issued, initialLog, envVars>>

\* The file is read and parsed when it exists (logging/index.ts:17-21).
LogRead(p) ==
  /\ proc[p].pc = "log_read"
  /\ IF FileExists(logFile)
       THEN \E ok \in BOOLEAN :
              LET parsed == JSONparse(logFile) IN
              proc' = [proc EXCEPT ![p] =
                         IF ~ok THEN LogCatch(@, "read")
                         ELSE IF ~parsed.ok THEN LogCatch(@, "parse")
                         ELSE [@ EXCEPT !.queries = parsed.val,
                                        !.pc = "log_push"]]
       ELSE proc' = [proc EXCEPT ![p].queries = EmptyQueries,
                                 ![p].pc = "log_push"]
  /\ UNCHANGED <<clock, vectorStore, outDir, logFile, build, issued,
                 appendCalls, initialLog, envVars>>

\* The entry is built and pushed (logging/index.ts:23-29); a value that is
\* no array has no push, which throws a TypeError.
LogPush(p) ==
  /\ proc[p].pc = "log_push"
  /\ LET r == proc[p] IN
     proc' = [proc EXCEPT ![p] =
                IF r.queries.t = "array"
                  THEN [r EXCEPT !.queries =
                                   Push(r.queries,
                                        BuildLoggedOutput(r, clock)),
                                 !.pc = "log_write"]
                  ELSE LogCatch(r, "push")]
  /\ UNCHANGED <<clock, vectorStore, outDir, logFile, build, issued,
                 appendCalls, initialLog, envVars>>

\* Mutant of WrittenText: the entry is appended to what the file holds at
\* the time of the write.
WrittenTextAppended(r, file) ==
  IF IsArrayFile(file)
    THEN JSONstringify(Push(file.val, r.queries.items[Len(r.queries.items)]))
    ELSE JSONstringify(r.queries)

\* What the write puts at OUTPUT_FILE, whatever the file holds by then: the
\* whole array of the caller (logging/index.ts:31).
WrittenText(r, file) == JSONstringify(r.queries)

\* fs.writeFileSync(OUTPUT_FILE, JSON.stringify(queries, null, 2))
\* (logging/index.ts:31). A write that fails leaves the file as it was, or
\* truncated.
LogWrite(p) ==
  /\ proc[p].pc = "log_write"
  /\ \/ /\ logFile' = WrittenText(proc[p], logFile)
        /\ proc' = [proc EXCEPT ![p].pc = "return", ![p].logWrote = TRUE]
        /\ appendCalls' = [appendCalls EXCEPT ![proc[p].callIndex].ok = TRUE]
     \/ /\ logFile' \in {logFile, Garbage}
        /\ proc' = [proc EXCEPT ![p] = LogCatch(@, "write")]
        /\ appendCalls' = appendCalls
  /\ UNCHANGED <<clock, vectorStore, outDir, build, issued, initialLog, envVars>>

\* return response (query/index.ts:276)
Return(p) ==
  /\ proc[p].pc = "return"
  /\ proc' = [proc EXCEPT ![p].pc = "done", ![p].result = "returned"]
  /\ UNCHANGED <<clock, vectorStore, outDir, logFile, build, issued,
                 appendCalls, initialLog, envVars>>

\* ---------------------------------------------------------------- the clock
Tick ==
  /\ clock < MaxClock
  /\ clock' = clock + 1
  /\ UNCHANGED <<vectorStore, outDir, logFile, build, proc, issued,
                 appendCalls, initialLog, envVars>>

\* -------------------------------------------------------------- build-index
\* The build-index process before its first run.
IdleBuild == [pc |-> "idle", exitCode |-> 0]

\* catch (error) { ...; process.exit(1) } (build-index/index.ts:110-114):
\* nothing that was written is removed.
BuildExit(b, code) == [b EXCEPT !.pc = "exited", !.exitCode = code]

\* buildIndex() up to the store in memory (build-index/index.ts:19-71):
\* the environment is validated, the document loaded and split, the chunks
\* embedded by the provider.
BuildPrepare ==
  /\ build.pc \in {"idle", "exited"}
  /\ \E ok \in BOOLEAN :
       LET b == [build EXCEPT !.exitCode = 0] IN
       build' = IF ok THEN [b EXCEPT !.pc = "save"] ELSE BuildExit(b, 1)
  /\ UNCHANGED <<clock, vectorStore, outDir, logFile, proc, issued,
                 appendCalls, initialLog, envVars>>

\* The parent directory is made, and vectorStore.save(VECTOR_STORE_PATH)
\* makes the directory of the store (build-index/index.ts:74-79).
BuildSaveMkdir ==
  /\ build.pc = "save"
  /\ \/ /\ vectorStore' = IF vectorStore.exists THEN vectorStore
                          ELSE StoreDir("empty")
        /\ build' = [build EXCEPT !.pc = "saving"]
     \/ /\ vectorStore' = vectorStore
        /\ build' = BuildExit(build, 1)
  /\ UNCHANGED <<clock, outDir, logFile, proc, issued, appendCalls,
                 initialLog, envVars>>

\* save writes the files of the store, one after the other
\* (build-index/index.ts:79): after the first and before the last the
\* directory holds part of an index.
BuildSaveFiles ==
  /\ build.pc \in {"saving", "saving_rest"}
  /\ \/ /\ build.pc = "saving"
        /\ vectorStore' = StoreDir("partial")
        /\ build' = [build EXCEPT !.pc = "saving_rest"]
     \/ /\ build.pc = "saving_rest"
        /\ vectorStore' = StoreDir("complete")
        /\ build' = [build EXCEPT !.pc = "chunk_info"]
     \/ /\ vectorStore' = vectorStore
        /\ build' = BuildExit(build, 1)
  /\ UNCHANGED <<clock, outDir, logFile, proc, issued, appendCalls,
                 initialLog, envVars>>

\* chunk-info.json is written and the run ends
\* (build-index/index.ts:81-108).
BuildChunkInfo ==
  /\ build.pc = "chunk_info"
  /\ \E ok \in BOOLEAN :
       build' = BuildExit(build, IF ok THEN 0 ELSE 1)
  /\ UNCHANGED <<clock, vectorStore, outDir, logFile, proc, issued,
                 appendCalls, initialLog, envVars>>

\* ------------------------------------------------------------ configuration
\* Strings are sequences of characters; "" is <<>>. An unset variable reads
\* as undefined, which the validators treat as they treat "".
DigitChars == <<"0", "1", "2", "3", "4", "5", "6", "7", "8", "9",
                "a", "b", "c", "d", "e", "f">>
WhiteSpace == {" "}

\* The value of character c as a digit of the radix, or -1.
DigitValue(c, radix) ==
  IF \E i \in 1..radix : DigitChars[i] = c
    THEN (CHOOSE i \in 1..radix : DigitChars[i] = c) - 1
    ELSE -1

RECURSIVE StripLeadingSpace(_)
StripLeadingSpace(str) ==
  IF str # <<>> /\ Head(str) \in WhiteSpace
    THEN StripLeadingSpace(Tail(str))
    ELSE str

\* The number the longest prefix of digits of str spells, read after acc;
\* seen says whether a digit was read.
RECURSIVE ReadDigits(_, _, _, _)
ReadDigits(str, radix, acc, seen) ==
  IF str # <<>> /\ DigitValue(Head(str), radix) >= 0
    THEN ReadDigits(Tail(str), radix,
                    acc * radix + DigitValue(Head(str), radix), TRUE)
    ELSE [nan |-> ~seen, val |-> acc]

\* Number.parseInt(string) with no radix (env.ts:20-21, query/env.ts:34-36):
\* leading white space is skipped, then a sign, then 0x selects radix 16,
\* then the longest prefix of digits is read; no digit gives NaN.
ParseInt(string) ==
  LET s1 == StripLeadingSpace(string)
      neg == s1 # <<>> /\ Head(s1) = "-"
      s2 == IF s1 # <<>> /\ Head(s1) \in {"-", "+"} THEN Tail(s1) ELSE s1
      hex == Len(s2) >= 2 /\ s2[1] = "0" /\ s2[2] \in {"x", "X"}
      s3 == IF hex THEN Tail(Tail(s2)) ELSE s2
      n == ReadDigits(s3, IF hex THEN 16 ELSE 10, 0, FALSE)
  IN  [nan |-> n.nan, val |-> IF neg THEN 0 - n.val ELSE n.val]

\* !process.env[varName]: unset or empty.
Missing(e, name) == e[name] = <<>>

\* What a validator gives back: the configuration, or the Error it throws.
Accepted(size, overlap, k) ==
  [ok |-> TRUE, message |-> "", CHUNK_SIZE |-> size,
   CHUNK_OVERLAP |-> overlap, RETRIEVAL_K |-> k]
Rejected(msg) ==
  [ok |-> FALSE, message |-> msg, CHUNK_SIZE |-> 0, CHUNK_OVERLAP |-> 0,
   RETRIEVAL_K |-> 0]

\* Mutant of OverlapTooLarge: an overlap equal to the size passes.
OverlapLargerThanSize(overlap, size) == overlap > size

\* if (CHUNK_OVERLAP >= CHUNK_SIZE) (env.ts:31, query/env.ts:46)
OverlapTooLarge(overlap, size) == overlap >= size

\* validateEnvironmentVariables() of build-index (build-index/env.ts:6-56)
validateEnvironmentVariables(e, docExists) ==
  LET requiredVars == {"DOCUMENT_PATH", "VECTOR_STORE_PATH",
                       "EMBEDDING_MODEL", "CHUNK_SIZE", "CHUNK_OVERLAP"}
      CHUNK_SIZE == ParseInt(e["CHUNK_SIZE"])
      CHUNK_OVERLAP == ParseInt(e["CHUNK_OVERLAP"])
  IN  IF \E v \in requiredVars : Missing(e, v)
        THEN Rejected("Missing required environment variables")
      ELSE IF CHUNK_SIZE.nan \/ CHUNK_SIZE.val <= 0
        THEN Rejected("CHUNK_SIZE must be a positive number")
      ELSE IF CHUNK_OVERLAP.nan \/ CHUNK_OVERLAP.val < 0
        THEN Rejected("CHUNK_OVERLAP must be a non-negative number")
      ELSE IF OverlapTooLarge(CHUNK_OVERLAP.val, CHUNK_SIZE.val)
        THEN Rejected("CHUNK_OVERLAP must be less than CHUNK_SIZE")
      ELSE IF ~docExists
        THEN Rejected("DOCUMENT_PATH does not exist")
      ELSE IF Missing(e, "OPENROUTER_API_KEY") /\ Missing(e, "OPENAI_API_KEY")
        THEN Rejected("Either OPENROUTER_API_KEY or OPENAI_API_KEY must be set")
      ELSE Accepted(CHUNK_SIZE.val, CHUNK_OVERLAP.val, 0)

\* loadAndValidateEnv() of query (query/env.ts, src/unnamed/part_002:18-75)
loadAndValidateEnv(e, docExists) ==
  LET requiredVars == {"DOCUMENT_PATH", "VECTOR_STORE_PATH",
                       "EMBEDDING_MODEL", "CHUNK_SIZE", "CHUNK_OVERLAP",
                       "LLM_MODEL", "RETRIEVAL_K"}
      chunkSize == ParseInt(e["CHUNK_SIZE"])
      chunkOverlap == ParseInt(e["CHUNK_OVERLAP"])
      retrievalK == ParseInt(e["RETRIEVAL_K"])
  IN  IF \E v \in requiredVars : Missing(e, v)
        THEN Rejected("Missing required environment variables")
      ELSE IF chunkSize.nan \/ chunkSize.val <= 0
        THEN Rejected("CHUNK_SIZE must be a positive number")
      ELSE IF chunkOverlap.nan \/ chunkOverlap.val < 0
        THEN Rejected("CHUNK_OVERLAP must be a non-negative number")
      ELSE IF OverlapTooLarge(chunkOverlap.val, chunkSize.val)
        THEN Rejected("CHUNK_OVERLAP must be less than CHUNK_SIZE")
      ELSE IF retrievalK.nan \/ retrievalK.val <= 0
        THEN Rejected("RETRIEVAL_K must be a positive number")
      ELSE IF ~docExists
        THEN Rejected("DOCUMENT_PATH does not exist")
      ELSE IF Missing(e, "OPENROUTER_API_KEY") /\ Missing(e, "OPENAI_API_KEY")
        THEN Rejected("Either OPENROUTER_API_KEY or OPENAI_API_KEY must be set")
      ELSE Accepted(chunkSize.val, chunkOverlap.val, retrievalK.val)

\* No validator has run.
NoValidation == [by |-> "none", result |-> Rejected("")]

\* An entry point that has not started: it has done no document, index or
\* provider work and has no exit code yet.
IdleEntry == [pc |-> "start", work |-> FALSE, exitCode |-> 0]

\* What the entry point does with the validator's result. An Error thrown
\* by validateEnvironmentVariables lands in the catch of buildIndex, which
\* calls process.exit(1) (build-index/index.ts:110-114); one thrown by
\* loadAndValidateEnv rejects the promise of main(), which nothing handles,
\* and the runtime ends the process with exit code 1
\* (query/index.ts:289, 298-300). Otherwise the work begins.
AfterValidation(result) ==
  IF result.ok THEN [pc |-> "working", work |-> TRUE, exitCode |-> 0]
  ELSE [pc |-> "exited", work |-> FALSE, exitCode |-> 1]

\* buildIndex() starts by validating (build-index/index.ts:23-31).
RunValidateEnvironmentVariables ==
  /\ validation.by = "none"
  /\ validation' = [by |-> "build-index",
                    result |-> validateEnvironmentVariables(env, docOnDisk)]
  /\ entry' = AfterValidation(validateEnvironmentVariables(env, docOnDisk))
  /\ UNCHANGED <<clock, vectorStore, outDir, logFile, build, proc, issued,
                 appendCalls, initialLog, env, docOnDisk, dataVars,
                 otherVars>>

\* main() of query and the sample run validate before they call query()
\* (query/index.ts:289, src/unnamed/part_000:15).
RunLoadAndValidateEnv ==
  /\ validation.by = "none"
  /\ validation' = [by |-> "query",
                    result |-> loadAndValidateEnv(env, docOnDisk)]
  /\ entry' = AfterValidation(loadAndValidateEnv(env, docOnDisk))
  /\ UNCHANGED <<clock, vectorStore, outDir, logFile, build, proc, issued,
                 appendCalls, initialLog, env, docOnDisk, dataVars,
                 otherVars>>

\* The decimal numeral of an integer, as a user writes it into .env.
RECURSIVE Numeral(_)
Numeral(n) ==
  IF n < 0 THEN <<"-">> \o Numeral(0 - n)
  ELSE IF n < 10 THEN <<DigitChars[n + 1]>>
  ELSE Numeral(n \div 10) \o <<DigitChars[(n % 10) + 1]>>

\* The values tried for a numeric variable: unset, the numerals of
\* -1..MaxSetting, a numeral followed by a letter, a numeral after a space,
\* and texts that spell no number.
SettingStrings ==
  {<<>>, <<"x">>, <<"0", "x">>, <<"-">>}
    \cup {Numeral(n) : n \in -1..MaxSetting}
    \cup {Numeral(n) \o <<"x">> : n \in 0..2}
    \cup {<<" ">> \o Numeral(n) : n \in 1..2}
    \cup {<<"0", "x", "1", "0">>}

\* An environment in which every variable is set and valid.
ValidEnv ==
  [DOCUMENT_PATH |-> <<"d">>, VECTOR_STORE_PATH |-> <<"v">>,
   EMBEDDING_MODEL |-> <<"e">>, LLM_MODEL |-> <<"l">>,
   CHUNK_SIZE |-> <<"2">>, CHUNK_OVERLAP |-> <<"1">>,
   RETRIEVAL_K |-> <<"3">>,
   OPENROUTER_API_KEY |-> <<>>, OPENAI_API_KEY |-> <<"k">>]

\* The settings other than the chunk configuration: all valid, or one of
\* them wrong.
OtherSettings ==
  {ValidEnv,
   [ValidEnv EXCEPT !.OPENAI_API_KEY = <<>>, !.OPENROUTER_API_KEY = <<"k">>],
   [ValidEnv EXCEPT !.OPENAI_API_KEY = <<>>],
   [ValidEnv EXCEPT !.DOCUMENT_PATH = <<>>],
   [ValidEnv EXCEPT !.VECTOR_STORE_PATH = <<>>],
   [ValidEnv EXCEPT !.EMBEDDING_MODEL = <<>>],
   [ValidEnv EXCEPT !.LLM_MODEL = <<>>],
   [ValidEnv EXCEPT !.RETRIEVAL_K = <<>>],
   [ValidEnv EXCEPT !.RETRIEVAL_K = <<"0">>],
   [ValidEnv EXCEPT !.RETRIEVAL_K = <<"x">>]}

\* ------------------------------------------------- retrieval and the prompt
\* Texts are sequences of characters. The metadata of a document is absent
\* (undefined) or an object, given by the set of its fields.
NoMetadata == [defined |-> FALSE, fields |-> {}]
MetadataObject(fields) == [defined |-> TRUE, fields |-> fields]

\* new Document({ pageContent, metadata })
Document(text, md) == [pageContent |-> text, metadata |-> md]

\* The text of the chunk stored i-th: a chunk may hold a blank line, and
\* two chunks may hold the same text.
ChunkText(i) ==
  CASE i % 4 = 1 -> <<"A">>
    [] i % 4 = 2 -> <<"B", "\n", "\n", "b">>
    [] i % 4 = 3 -> <<"C">>
    [] OTHER -> <<"A">>

\* The documents an index of n chunks holds, as build-index stored them
\* (build-index/index.ts:51-58), the one at position bare stored without
\* metadata (an index written by other means).
StoredDocuments(n, bare) ==
  [i \in 1..n |->
     Document(ChunkText(i),
              IF i = bare THEN NoMetadata
              ELSE MetadataObject({<<"chunkIndex", i - 1>>,
                                   <<"source", "d">>}))]

\* Mutant of RetrieverK: the retriever is built without k and searches with
\* the library's default of 4.
RetrieverDefaultK(retrievalK) == 4

\* vectorStore.asRetriever({ k: env.retrievalK }) (query/index.ts:226-228)
RetrieverK(retrievalK) == retrievalK

\* The sequences of n distinct positions among 1..total.
Selections(n, total) ==
  {sel \in [1..n -> 1..total] :
     \A i, j \in 1..n : i # j => sel[i] # sel[j]}

\* retriever.invoke(question) on the HNSW index (query/index.ts:239): the
\* search is cut to the number of stored documents and gives that many
\* distinct documents, nearest first; which are nearest is the embedding's
\* matter.
SimilaritySearch(index, k) ==
  LET n == IF k > Len(index) THEN Len(index) ELSE k IN
  {[i \in 1..n |-> index[sel[i]]] : sel \in Selections(n, Len(index))}

\* Mutant of FormatChunks: documents whose text was seen already are
\* dropped.
FormatChunksDeduplicated(retrievedDocs) ==
  LET first == {i \in 1..Len(retrievedDocs) :
                  \A j \in 1..(i - 1) :
                    retrievedDocs[j].pageContent # retrievedDocs[i].pageContent}
      nth(m) == CHOOSE i \in first : Cardinality({j \in first : j < i}) = m - 1
  IN  [m \in 1..Cardinality(first) |->
         [content |-> retrievedDocs[nth(m)].pageContent,
          metadata |-> IF retrievedDocs[nth(m)].metadata.defined
                         THEN retrievedDocs[nth(m)].metadata
                         ELSE MetadataObject({})]]

\* retrievedDocs.map((doc) => ({ content: doc.pageContent,
\* metadata: doc.metadata ?? {} })) (query/index.ts:252-255)
FormatChunks(retrievedDocs) ==
  [i \in 1..Len(retrievedDocs) |->
     [content |-> retrievedDocs[i].pageContent,
      metadata |-> IF retrievedDocs[i].metadata.defined
                     THEN retrievedDocs[i].metadata
                     ELSE MetadataObject({})]]

\* Array.prototype.join(separator) on texts
RECURSIVE Join(_, _)
Join(texts, separator) ==
  IF texts = <<>> THEN <<>>
  ELSE IF Len(texts) = 1 THEN texts[1]
  ELSE texts[1] \o separator \o Join(Tail(texts), separator)

\* Mutant of Context: the chunks are joined by a single line break.
ContextJoinedByNewline(retrievedDocs) ==
  Join([i \in 1..Len(retrievedDocs) |-> retrievedDocs[i].pageContent],
       <<"\n">>)

\* retrievedDocs.map((doc) => doc.pageContent).join('\n\n')
\* (query/index.ts:243)
Context(retrievedDocs) ==
  Join([i \in 1..Len(retrievedDocs) |-> retrievedDocs[i].pageContent],
       <<"\n", "\n">>)

\* A piece of a prompt template: literal text, or the place of a variable.
Literal(text) == [var |-> FALSE, text |-> text]
Placeholder(name) == [var |-> TRUE, text |-> <<name>>]

\* The template of prompts/query-qa.md: fixed text around the places of
\* {context} and {question}.
QueryQaTemplate ==
  <<Literal(<<"T", ":">>), Placeholder("context"), Literal(<<"Q", ":">>),
    Placeholder("question"), Literal(<<".">>)>>

\* ChatPromptTemplate.fromTemplate(template) formatted with the values
\* (query/index.ts:238, 246): every placeholder gives way to the value of
\* its variable, taken as it is; the values are not read for placeholders.
RECURSIVE FormatPrompt(_, _)
FormatPrompt(template, values) ==
  IF template = <<>> THEN <<>>
  ELSE (IF Head(template).var THEN values[Head(template).text[1]]
        ELSE Head(template).text)
         \o FormatPrompt(Tail(template), values)

\* The questions asked: plain, shaped like a placeholder, holding a blank
\* line.
Questions == {<<"q">>, <<"{", "q", "}">>, <<"q", "\n", "\n", "?">>}

\* The data of a query before it is issued.
IdleRag ==
  [pc |-> "idle", index |-> <<>>, retrievalK |-> 1, question |-> <<>>,
   retrievedDocs |-> <<>>, prompt |-> <<>>, chunks_related |-> <<>>]

\* const retrievedDocs = await retriever.invoke(question)
\* (query/index.ts:226-228, 239)
RetrieverInvoke ==
  /\ rag.pc = "retrieve"
  /\ \E docs \in SimilaritySearch(rag.index, RetrieverK(rag.retrievalK)) :
       rag' = [rag EXCEPT !.retrievedDocs = docs, !.pc = "generate"]
  /\ UNCHANGED <<clock, vectorStore, outDir, logFile, build, proc, issued,
                 appendCalls, initialLog, env, docOnDisk, validation, entry,
                 evaluator, chunker, otherVars>>

\* const answer = await ragChain.invoke(question) (query/index.ts:241-251):
\* the prompt is rendered from the context and the question and sent.
RagChainInvoke ==
  /\ rag.pc = "generate"
  /\ rag' = [rag EXCEPT
               !.prompt = FormatPrompt(QueryQaTemplate,
                            [context |-> Context(rag.retrievedDocs),
                             question |-> rag.question]),
               !.pc = "format"]
  /\ UNCHANGED <<clock, vectorStore, outDir, logFile, build, proc, issued,
                 appendCalls, initialLog, env, docOnDisk, validation, entry,
                 evaluator, chunker, otherVars>>

\* The QueryResponse is built (query/index.ts:252-261).
BuildResponse ==
  /\ rag.pc = "format"
  /\ rag' = [rag EXCEPT !.chunks_related = FormatChunks(rag.retrievedDocs),
                        !.pc = "done"]
  /\ UNCHANGED <<clock, vectorStore, outDir, logFile, build, proc, issued,
                 appendCalls, initialLog, env, docOnDisk, validation, entry,
                 evaluator, chunker, otherVars>>

\* ------------------------------------------------------------ the evaluator
\* The text of the completion is a sequence of tokens: a character of prose
\* ("x"), an opening or closing brace, or a member "key": value of a JSON
\* object together with the comma that separates it. Numbers are written
\* in tenths (87 is 8.7).
Char(c) == [member |-> FALSE, key |-> c, type |-> "char", num |-> 0]
NumberMember(k, n) == [member |-> TRUE, key |-> k, type |-> "number", num |-> n]
StringMember(k) == [member |-> TRUE, key |-> k, type |-> "string", num |-> 0]

\* A JSON value out of a parsed object: a number, a string, or undefined
\* for a key the object does not have.
JsonUndefined == [type |-> "undefined", num |-> 0]
JsonValue(m) == [type |-> m.type, num |-> m.num]

\* evaluationText.match(/\{[\s\S]*\}/) (evaluator.ts:43): the match starts
\* at the first "{" and, the star being greedy, ends at the last "}" after
\* it; null when no "}" follows the first "{".
RegexMatch(text) ==
  LET opens == {i \in 1..Len(text) : text[i] = Char("{")}
      first == CHOOSE i \in opens : \A j \in opens : i <= j
      closes == {i \in 1..Len(text) : text[i] = Char("}") /\ i > first}
      last == CHOOSE i \in closes : \A j \in closes : j <= i
  IN  IF opens = {} \/ closes = {}
        THEN [found |-> FALSE, text |-> <<>>]
        ELSE [found |-> TRUE, text |-> SubSeq(text, first, last)]

\* JSON.parse(jsonMatch[0]) (evaluator.ts:48) on a text that starts with
\* "{" and ends with "}": an object when everything between is members, a
\* SyntaxError otherwise.
ParseJsonObject(text) ==
  IF \A i \in 2..(Len(text) - 1) : text[i].member
    THEN [ok |-> TRUE, members |-> SubSeq(text, 2, Len(text) - 1)]
    ELSE [ok |-> FALSE, members |-> <<>>]

\* parsedEvaluation.key: the value of the last member with the key, or
\* undefined.
Field(members, k) ==
  LET at == {i \in 1..Len(members) : members[i].key = k} IN
  IF at = {} THEN JsonUndefined
  ELSE JsonValue(members[CHOOSE i \in at : \A j \in at : j <= i])

\* How evaluateResponse ends: it returns a result or throws.
NoResult ==
  [score |-> JsonUndefined, reason |-> JsonUndefined,
   breakdown |-> [chunk_relevance |-> JsonUndefined,
                  answer_accuracy |-> JsonUndefined,
                  completeness |-> JsonUndefined]]
EvaluationThrew(msg) == [threw |-> TRUE, message |-> msg, result |-> NoResult]
EvaluationReturned(res) == [threw |-> FALSE, message |-> "", result |-> res]

\* Mutant of OnNoJsonMatch: a text without JSON gives a result of
\* undefined fields.
OnNoJsonMatchReturnEmpty(text) == EvaluationReturned(NoResult)

\* if (!jsonMatch) throw new Error(...) (evaluator.ts:44-46)
OnNoJsonMatch(text) ==
  EvaluationThrew("Failed to extract JSON from evaluation response")

\* The tail of evaluateResponse (evaluator.ts:43-58): match, parse, and
\* the result built from the fields of the parsed object, unvalidated.
ParseEvaluation(text) ==
  LET jsonMatch == RegexMatch(text)
      parsedEvaluation == ParseJsonObject(jsonMatch.text)
  IN  IF ~jsonMatch.found THEN OnNoJsonMatch(text)
      ELSE IF ~parsedEvaluation.ok THEN EvaluationThrew("SyntaxError")
      ELSE EvaluationReturned(
             [score |-> Field(parsedEvaluation.members, "overall_score"),
              reason |-> Field(parsedEvaluation.members, "reason"),
              breakdown |->
                [chunk_relevance |->
                   Field(parsedEvaluation.members, "chunk_relevance"),
                 answer_accuracy |->
                   Field(parsedEvaluation.members, "answer_accuracy"),
                 completeness |->
                   Field(parsedEvaluation.members, "completeness")]])

\* The text of the JSON object the evaluation prompt asks for.
ScoreObject(overall, relevance, accuracy, completeness) ==
  <<Char("{"), NumberMember("overall_score", overall),
    NumberMember("chunk_relevance", relevance),
    NumberMember("answer_accuracy", accuracy),
    NumberMember("completeness", completeness), StringMember("reason"),
    Char("}")>>

\* The scores a model may write: the ends of the scale, a fraction, and
\* numbers off the scale.
ScoreValues == {0, 87, 100, 150, -10}

\* What the completion may hold where an object is expected: nothing, the
\* object asked for, an object with a key missing or a score written as a
\* string, an empty object.
ObjectTexts ==
  {<<>>, <<Char("{"), Char("}")>>,
   <<Char("{"), NumberMember("overall_score", 80), Char("}")>>,
   <<Char("{"), StringMember("overall_score"),
     NumberMember("chunk_relevance", 90), NumberMember("answer_accuracy", 80),
     NumberMember("completeness", 90), StringMember("reason"), Char("}")>>}
    \cup {ScoreObject(s, 90, 80, 90) : s \in ScoreValues}
    \cup {ScoreObject(87, 90, 80, c) : c \in ScoreValues}

\* Prose of at most n characters, braces among them.
Prose(n) ==
  UNION {[1..m -> {Char("x"), Char("{"), Char("}")}] : m \in 0..n}

\* The evaluator before the completion has arrived.
IdleEvaluator ==
  [pc |-> "idle", before |-> <<>>, object |-> <<>>, after |-> <<>>,
   evaluationText |-> <<>>, outcome |-> EvaluationThrew("")]

\* const evaluationText = await evaluationChain.invoke({})
\* (evaluator.ts:16-41): the completion arrives, or the provider fails and
\* the error leaves evaluateResponse.
EvaluationChainInvoke ==
  /\ evaluator.pc = "invoke"
  /\ \/ evaluator' =
          [evaluator EXCEPT
             !.evaluationText = evaluator.before \o evaluator.object
                                  \o evaluator.after,
             !.pc = "parse"]
     \/ evaluator' = [evaluator EXCEPT !.outcome = EvaluationThrew("ProviderError"),
                                       !.pc = "failed"]
  /\ UNCHANGED <<clock, vectorStore, outDir, logFile, build, proc, issued,
                 appendCalls, initialLog, env, docOnDisk, validation, entry,
                 rag, chunker, otherVars>>

\* The rest of evaluateResponse (evaluator.ts:43-58).
EvaluationParse ==
  /\ evaluator.pc = "parse"
  /\ evaluator' = [evaluator EXCEPT
                     !.outcome = ParseEvaluation(evaluator.evaluationText),
                     !.pc = "done"]
  /\ UNCHANGED <<clock, vectorStore, outDir, logFile, build, proc, issued,
                 appendCalls, initialLog, env, docOnDisk, validation, entry,
                 rag, chunker, otherVars>>

\* -------------------------------------------------------------- the chunker
\* new RecursiveCharacterTextSplitter({ chunkSize, chunkOverlap,
\* separators: ['\n\n', '\n', '. ', ' ', ''] }) (build-index/index.ts:40-44);
\* the separator is kept at the head of the piece that follows it.
Separators ==
  <<<<"\n", "\n">>, <<"\n">>, <<".", " ">>, <<" ">>, <<>>>>

\* text.includes(s), and the positions (counted from 0) where s starts.
StartsAt(text, s, p) ==
  p + Len(s) <= Len(text) /\ SubSeq(text, p + 1, p + Len(s)) = s
Includes(text, s) == \E p \in 0..Len(text) : StartsAt(text, s, p)

\* String.prototype.trim(): white space is taken off both ends.
RECURSIVE TrimStart(_)
TrimStart(text) ==
  IF text # <<>> /\ Head(text) \in {" ", "\n"} THEN TrimStart(Tail(text))
  ELSE text
RECURSIVE TrimEnd(_)
TrimEnd(text) ==
  IF text # <<>> /\ text[Len(text)] \in {" ", "\n"}
    THEN TrimEnd(SubSeq(text, 1, Len(text) - 1))
    ELSE text
Trim(text) == TrimEnd(TrimStart(text))

\* splitOnSeparator: the text is cut before every occurrence of the
\* separator that is not at its start; with the empty separator it is cut
\* into its characters. Empty pieces are dropped.
SplitOnSeparator(text, separator) ==
  LET cuts == IF separator = <<>> THEN 1..(Len(text) - 1)
              ELSE {p \in 1..(Len(text) - 1) : StartsAt(text, separator, p)}
      starts == {0} \cup cuts
      nth(m) == CHOOSE p \in starts : Cardinality({q \in starts : q < p}) = m - 1
      end(m) == IF m = Cardinality(starts) THEN Len(text) ELSE nth(m + 1)
  IN  IF text = <<>> THEN <<>>
      ELSE [m \in 1..Cardinality(starts) |-> SubSeq(text, nth(m) + 1, end(m))]

\* joinDocs: the pieces are joined and trimmed; a text that is empty after
\* the trim gives no chunk.
JoinDocs(pieces) ==
  LET text == Trim(Join(pieces, <<>>)) IN
  IF text = <<>> THEN <<>> ELSE <<text>>

\* The while loop of mergeSplits: pieces are taken off the front of the
\* current chunk until what is left fits the overlap and the next piece.
RECURSIVE Shrink(_, _, _, _, _)
Shrink(currentDoc, total, len, chunkSize, chunkOverlap) ==
  IF total > chunkOverlap \/ (total + len > chunkSize /\ total > 0)
    THEN Shrink(Tail(currentDoc), total - Len(Head(currentDoc)), len,
                chunkSize, chunkOverlap)
    ELSE [currentDoc |-> currentDoc, total |-> total]

\* mergeSplits: small pieces are packed into chunks of at most chunkSize
\* characters, each starting with up to chunkOverlap characters of the one
\* before.
RECURSIVE MergeSplits(_, _, _, _, _, _, _)
MergeSplits(splits, i, docs, currentDoc, total, chunkSize, chunkOverlap) ==
  IF i > Len(splits) THEN docs \o JoinDocs(currentDoc)
  ELSE LET d == splits[i]
           full == total + Len(d) > chunkSize /\ currentDoc # <<>>
           kept == IF full
                     THEN Shrink(currentDoc, total, Len(d), chunkSize,
                                 chunkOverlap)
                     ELSE [currentDoc |-> currentDoc, total |-> total]
       IN  MergeSplits(splits, i + 1,
                       IF full THEN docs \o JoinDocs(currentDoc) ELSE docs,
                       Append(kept.currentDoc, d), kept.total + Len(d),
                       chunkSize, chunkOverlap)

\* _splitText: the text is cut on the first separator it holds; pieces
\* shorter than chunkSize are merged, the others are cut again on the
\* separators that remain, or kept whole when none remains.
RECURSIVE SplitText(_, _, _, _)
RECURSIVE SplitPieces(_, _, _, _, _, _, _, _)
SplitText(text, separators, chunkSize, chunkOverlap) ==
  LET found == {i \in 1..Len(separators) :
                  separators[i] = <<>> \/ Includes(text, separators[i])}
      first == IF found = {} THEN Len(separators)
               ELSE CHOOSE i \in found : \A j \in found : i <= j
      separator == separators[first]
      newSeparators == IF found = {} \/ separator = <<>> THEN <<>>
                       ELSE SubSeq(separators, first + 1, Len(separators))
  IN  SplitPieces(SplitOnSeparator(text, separator), 1, <<>>, <<>>,
                  found # {} /\ separator # <<>>, newSeparators,
                  chunkSize, chunkOverlap)
SplitPieces(splits, i, goodSplits, finalChunks, again, newSeparators, chunkSize, chunkOverlap) ==
  LET merged == IF goodSplits = <<>> THEN <<>>
                ELSE MergeSplits(goodSplits, 1, <<>>, <<>>, 0, chunkSize,
                                 chunkOverlap)
  IN  IF i > Len(splits) THEN finalChunks \o merged
      ELSE IF Len(splits[i]) < chunkSize
        THEN SplitPieces(splits, i + 1, Append(goodSplits, splits[i]),
                         finalChunks, again, newSeparators, chunkSize,
                         chunkOverlap)
      ELSE SplitPieces(splits, i + 1, <<>>,
                       finalChunks \o merged
                         \o (IF again
                               THEN SplitText(splits[i], newSeparators,
                                              chunkSize, chunkOverlap)
                               ELSE <<splits[i]>>),
                       again, newSeparators, chunkSize, chunkOverlap)

\* Mutant of ChunkIndex: the chunks are numbered from 1.
ChunkIndexFromOne(position) == position

\* chunkIndex: index (build-index/index.ts:55): the index of map() of the
\* chunk at a position counted from 1.
ChunkIndex(position) == position - 1

\* chunks.map((chunk, index) => ({ ...chunk, metadata: { ...chunk.metadata,
\* chunkIndex: index, source: DOCUMENT_PATH } })) (build-index/index.ts:51-58)
ChunksWithMetadata(chunks, DOCUMENT_PATH) ==
  [i \in 1..Len(chunks) |->
     [pageContent |-> chunks[i],
      metadata |-> [chunkIndex |-> ChunkIndex(i), source |-> DOCUMENT_PATH]]]

\* The characters of a document: a letter, a space, a line break, a full
\* stop.
DocumentChars == {"a", " ", "\n", "."}
Documents == UNION {[1..n -> DocumentChars] : n \in 0..MaxDocument}
\* The documents and chunk sizes the runs of build-index are followed on
\* down to the files.
BuildDocuments == UNION {[1..n -> DocumentChars] : n \in 0..MaxBuildDocument}

\* The chunking step before it runs.
IdleChunker ==
  [pc |-> "idle", document |-> <<>>, chunkSize |-> 1, chunkOverlap |-> 0,
   chunks |-> <<>>, chunksWithMetadata |-> <<>>, stored |-> <<>>,
   runs |-> 1]

\* const chunks = await textSplitter.splitDocuments(docs)
\* (build-index/index.ts:35-49): the loader gives the text of the file as
\* one document, the splitter its chunks.
SplitDocuments ==
  /\ chunker.pc = "split"
  /\ chunker' = [chunker EXCEPT
                   !.chunks = SplitText(chunker.document, Separators,
                                        chunker.chunkSize,
                                        chunker.chunkOverlap),
                   !.pc = "tag"]
  /\ UNCHANGED <<clock, vectorStore, outDir, logFile, build, proc, issued,
                 appendCalls, initialLog, env, docOnDisk, validation, entry,
                 rag, evaluator, otherVars>>

\* The chunks are tagged (build-index/index.ts:51-58).
TagChunks ==
  /\ chunker.pc = "tag"
  /\ chunker' = [chunker EXCEPT
                   !.chunksWithMetadata =
                      ChunksWithMetadata(chunker.chunks, env["DOCUMENT_PATH"]),
                   !.pc = "store"]
  /\ UNCHANGED <<clock, vectorStore, outDir, logFile, build, proc, issued,
                 appendCalls, initialLog, env, docOnDisk, validation, entry,
                 rag, evaluator, otherVars>>

\* HNSWLib.fromDocuments(chunksWithMetadata, embeddings)
\* (build-index/index.ts:67-70): the documents are embedded and stored in
\* the order given, or the provider fails.
FromDocuments ==
  /\ chunker.pc = "store"
  /\ \/ chunker' = [chunker EXCEPT !.stored = chunker.chunksWithMetadata,
                                   !.pc = "done"]
     \/ chunker' = [chunker EXCEPT !.pc = "failed"]
  /\ UNCHANGED <<clock, vectorStore, outDir, logFile, build, proc, issued,
                 appendCalls, initialLog, env, docOnDisk, validation, entry,
                 rag, evaluator, otherVars>>

\* ------------------------------------------------------- provider clients
\* An API key is a string; an unset variable reads as undefined, which the
\* selection treats as it treats "".
OpenAIKey == <<"o">>
OpenRouterKey == <<"r">>

\* The keys as the entry points hand them on: openaiApiKey:
\* process.env.OPENAI_API_KEY, openRouterApiKey:
\* process.env.OPENROUTER_API_KEY (src/unnamed/part_002:72-73,
\* build-index/env.ts:51-52).
ClientArgs(e) ==
  [openaiApiKey |-> e["OPENAI_API_KEY"],
   openRouterApiKey |-> e["OPENROUTER_API_KEY"]]

\* CONFIGURATION.baseURL (src/unnamed/part_001:4-10), and the endpoint a
\* client built without a configuration talks to.
OpenRouterBaseURL == "https://openrouter.ai/api/v1"
OpenAIBaseURL == "https://api.openai.com/v1"

\* The retries a client makes when the constructor is given no maxRetries,
\* as here (src/unnamed/part_001:15-29, 42-58): the caller of the client
\* library sends a failed request again, up to this many times.
DefaultMaxRetries == 6

\* new OpenAIEmbeddings({...}) / new ChatOpenAI({...}): what the client
\* sends its requests with.
Client(kind, apiKey, baseURL) ==
  [kind |-> kind, apiKey |-> apiKey, baseURL |-> baseURL,
   maxRetries |-> DefaultMaxRetries]

\* GetEmbeddingsClient(args) (src/unnamed/part_001:12-33)
GetEmbeddingsClient(args) ==
  IF args.openRouterApiKey # <<>>
    THEN Client("embeddings", args.openRouterApiKey, OpenRouterBaseURL)
    ELSE Client("embeddings", args.openaiApiKey, OpenAIBaseURL)

\* Mutant of GetOpenApiClient: the OpenAI key wins when both are set.
GetOpenApiClientPreferOpenAI(args) ==
  IF args.openaiApiKey # <<>>
    THEN Client("chat", args.openaiApiKey, OpenAIBaseURL)
    ELSE Client("chat", args.openRouterApiKey, OpenRouterBaseURL)

\* GetOpenApiClient(args) (src/unnamed/part_001:39-62)
GetOpenApiClient(args) ==
  IF args.openRouterApiKey # <<>>
    THEN Client("chat", args.openRouterApiKey, OpenRouterBaseURL)
    ELSE Client("chat", args.openaiApiKey, OpenAIBaseURL)

\* The calls query() makes through a client: the embedding of the question
\* (query/index.ts:239, client of query/vector.ts:14-18), the answer
\* (query/index.ts:251, client of 230-235), the evaluation (evaluator.ts:41,
\* client of 16-21).
ProviderCalls == {"embedQuery", "answer", "evaluation"}

\* What a provider answers a request with: the result, a status the caller
\* gives up on (bad key), or one it tries again after (rate limit, server
\* error).
Statuses == {200, 401, 429, 500}
GivesUpOn(status) == status = 401

\* No call under way.
NoRequest == [apiKey |-> <<>>, baseURL |-> ""]
IdleProvider ==
  [pc |-> "idle", call |-> "embedQuery",
   args |-> [openaiApiKey |-> <<>>, openRouterApiKey |-> <<>>],
   client |-> Client("none", <<>>, ""),
   requests |-> 0, failures |-> 0, request |-> NoRequest,
   outcome |-> "none"]

\* The client of a call is built from the keys of the environment.
GetClient ==
  /\ provider.pc = "idle"
  /\ \E c \in ProviderCalls :
       LET a == ClientArgs(env) IN
       provider' = [provider EXCEPT
                      !.pc = "invoke", !.call = c, !.args = a,
                      !.client = IF c = "embedQuery"
                                   THEN GetEmbeddingsClient(a)
                                   ELSE GetOpenApiClient(a)]
  /\ UNCHANGED <<clock, vectorStore, outDir, logFile, build, proc, issued,
                 appendCalls, initialLog, env, docOnDisk, validation, entry,
                 dataVars, chunkInfo, docstore, sample>>

\* invoke(): the client sends a request with its key to its endpoint and
\* the provider answers. A failure the caller does not give up on is
\* followed by another request while retries are left.
SendRequest ==
  /\ provider.pc = "invoke"
  /\ \E status \in Statuses :
       LET r == [provider EXCEPT
                   !.requests = @ + 1,
                   !.failures = IF status = 200 THEN @ ELSE @ + 1,
                   !.request = [apiKey |-> provider.client.apiKey,
                                baseURL |-> provider.client.baseURL]] IN
       provider' =
         IF status = 200
           THEN [r EXCEPT !.pc = "settled", !.outcome = "resolved"]
         ELSE IF GivesUpOn(status) \/ r.failures > r.client.maxRetries
           THEN [r EXCEPT !.pc = "settled", !.outcome = "rejected"]
         ELSE r
  /\ UNCHANGED <<clock, vectorStore, outDir, logFile, build, proc, issued,
                 appendCalls, initialLog, env, docOnDisk, validation, entry,
                 dataVars, chunkInfo, docstore, sample>>

\* ------------------------------------------- what build-index leaves on disk
\* The characters of the preview chunk-info.json keeps of a chunk.
PreviewLength == 100

\* The documents of the index persisted at VECTOR_STORE_PATH.
NoDocstore == [exists |-> FALSE, docs |-> <<>>]
Docstore(docs) == [exists |-> TRUE, docs |-> docs]

\* chunk.pageContent.substring(0, 100) + '...' (build-index/index.ts:90)
Preview(pageContent) ==
  SubSeq(pageContent, 1,
         IF Len(pageContent) < PreviewLength THEN Len(pageContent)
         ELSE PreviewLength) \o <<".", ".", ".">>

\* No file at chunkInfoPath.
NoChunkInfo ==
  [exists |-> FALSE, totalChunks |-> 0, chunkSize |-> 0, chunkOverlap |-> 0,
   chunks |-> <<>>]

\* const chunkInfo = { totalChunks: chunks.length, ..., chunks:
\* chunks.map((chunk, index) => ({ index, preview, length })) }
\* (build-index/index.ts:82-93), as JSON.stringify writes it.
ChunkInfo(chunks, CHUNK_SIZE, CHUNK_OVERLAP) ==
  [exists |-> TRUE, totalChunks |-> Len(chunks), chunkSize |-> CHUNK_SIZE,
   chunkOverlap |-> CHUNK_OVERLAP,
   chunks |-> [i \in 1..Len(chunks) |->
                 [index |-> i - 1, preview |-> Preview(chunks[i]),
                  length |-> Len(chunks[i])]]]

\* await vectorStore.save(VECTOR_STORE_PATH) (build-index/index.ts:74-79):
\* the directory is made and the files of the index are written. A save
\* that fails has written nothing, or some of the files; the catch ends the
\* run with code 1 and removes nothing (build-index/index.ts:110-114).
VectorStoreSave ==
  /\ chunker.pc = "done"
  /\ \/ /\ vectorStore' = StoreDir("complete")
        /\ docstore' = Docstore(chunker.stored)
        /\ chunker' = [chunker EXCEPT !.pc = "chunk_info"]
     \/ /\ \/ vectorStore' = vectorStore /\ docstore' = docstore
           \/ /\ vectorStore' = StoreDir("partial")
              /\ docstore' \in {docstore, Docstore(chunker.stored)}
        /\ chunker' = [chunker EXCEPT !.pc = "failed"]
  /\ UNCHANGED <<clock, outDir, logFile, build, proc, issued, appendCalls,
                 initialLog, env, docOnDisk, validation, entry, rag,
                 evaluator, chunkInfo, provider, sample>>

\* fs.writeFileSync(chunkInfoPath, JSON.stringify(chunkInfo, null, 2))
\* (build-index/index.ts:82-96), or the write throws and the run ends with
\* code 1.
WriteChunkInfo ==
  /\ chunker.pc = "chunk_info"
  /\ \/ /\ chunkInfo' = ChunkInfo(chunker.chunks, chunker.chunkSize,
                                  chunker.chunkOverlap)
        /\ chunker' = [chunker EXCEPT !.pc = "finished"]
     \/ /\ chunkInfo' = chunkInfo
        /\ chunker' = [chunker EXCEPT !.pc = "failed"]
  /\ UNCHANGED <<clock, vectorStore, outDir, logFile, build, proc, issued,
                 appendCalls, initialLog, env, docOnDisk, validation, entry,
                 rag, evaluator, docstore, provider, sample>>

\* The document as it is at a later run: as it was, or with its last
\* character removed.
Revisions(document) ==
  {document} \cup
    (IF document = <<>> THEN {}
     ELSE {SubSeq(document, 1, Len(document) - 1)})

\* build-index is run again (build-index/index.ts:19-49) after a run has
\* ended, on the document as it is by then.
BuildAgain ==
  /\ chunker.pc \in {"finished", "failed"}
  /\ chunker.runs < MaxBuilds
  /\ \E doc \in Revisions(chunker.document) :
       chunker' = [chunker EXCEPT !.pc = "split", !.document = doc,
                                  !.chunks = <<>>,
                                  !.chunksWithMetadata = <<>>,
                                  !.stored = <<>>, !.runs = @ + 1]
  /\ UNCHANGED <<clock, vectorStore, outDir, logFile, build, proc, issued,
                 appendCalls, initialLog, env, docOnDisk, validation, entry,
                 rag, evaluator, otherVars>>

\* ----------------------------------------------------------- the sample run
\* SAMPLE_QUESTIONS (src/unnamed/part_000:4-11): six questions, each named
\* by its place in the list.
SAMPLE_QUESTIONS == <<1, 2, 3, 4, 5, 6>>

\* executeSampleQuestions() before its loop starts.
IdleSample == [pc |-> "loop", position |-> 0, returned |-> 0, exitCode |-> 0]

\* One turn of for (const question of SAMPLE_QUESTIONS)
\* (src/unnamed/part_000:14-17): the environment is validated and
\* query(question, env) is called, with evaluation enabled by default.
SampleQuery(p) ==
  /\ sample.pc = "loop"
  /\ sample.position < Len(SAMPLE_QUESTIONS)
  /\ IF loadAndValidateEnv(env, docOnDisk).ok
       THEN /\ proc' = [proc EXCEPT ![p] =
                          [IdleProc(0) EXCEPT
                             !.pc = "loadVectorStore",
                             !.question =
                                SAMPLE_QUESTIONS[sample.position + 1],
                             !.enableEvaluation = TRUE,
                             !.logAtStart = logFile]]
            /\ issued' = issued + 1
            /\ sample' = [sample EXCEPT !.pc = "awaiting",
                                        !.position = @ + 1]
       ELSE /\ sample' = [sample EXCEPT !.pc = "crashed", !.exitCode = 1]
            /\ UNCHANGED <<proc, issued>>
  /\ UNCHANGED <<clock, vectorStore, outDir, logFile, build, appendCalls,
                 initialLog, env, docOnDisk, validation, entry, dataVars,
                 chunkInfo, docstore, provider>>

\* Mutant of OnQueryRejected: the loop catches the error and goes on with
\* the next question.
OnQueryRejectedContinue(s) == [s EXCEPT !.pc = "loop"]

\* Nothing catches a rejection of await query(...)
\* (src/unnamed/part_000:13-23): it leaves the loop and the top-level
\* await, and the process ends with code 1.
OnQueryRejected(s) == [s EXCEPT !.pc = "crashed", !.exitCode = 1]

\* await query(question, env) settles (src/unnamed/part_000:17): the loop
\* goes on when the promise resolved, and ends after the last question.
SampleAwait(p) ==
  /\ sample.pc = "awaiting"
  /\ proc[p].pc = "done"
  /\ sample' =
       IF proc[p].result = "threw" THEN OnQueryRejected(sample)
       ELSE [sample EXCEPT
               !.returned = @ + 1,
               !.pc = IF sample.position = Len(SAMPLE_QUESTIONS)
                        THEN "finished" ELSE "loop"]
  /\ UNCHANGED <<clock, vectorStore, outDir, logFile, build, proc, issued,
                 appendCalls, initialLog, env, docOnDisk, validation, entry,
                 dataVars, chunkInfo, docstore, provider>>

\* --------------------------------------- query() calls of one Node process
\* The positions of query() that are no await: the code from a settled
\* await to the next one runs without giving way (query/index.ts:225,
\* 252-276); logQueryOutput holds no await at all (logging/index.ts:11-35).
Synchronous ==
  {"loadVectorStore", "logQueryOutput", "log_read", "log_push", "log_write",
   "return"}

\* Mutant of Turn: logQueryOutput gives way between its file-system calls,
\* as it would with awaited I/O.
TurnAtAnyStep(p) == TRUE

\* The event loop runs a step of call p only when no other call of the
\* process is in the middle of synchronous code.
Turn(p) == \A o \in Procs \ {p} : proc[o].pc \notin Synchronous

\* ------------------------------------------------------------ specifications
\* The log files a run may find: none, a file that is no JSON, a JSON value
\* that is no array, an empty array, an array of one earlier entry.
InitialLogs ==
  {NoFile, Garbage, JsonText(JsonObject, 0), JsonText(JsonArray(<<>>), 2),
   JsonText(JsonArray(<<OldEntry>>), 2)}

InitCommon ==
  /\ clock = 0
  /\ logFile \in InitialLogs
  /\ outDir \in BOOLEAN
  /\ FileExists(logFile) => outDir
  /\ build = IdleBuild
  /\ issued = 0
  /\ appendCalls = <<>>
  /\ initialLog = logFile
  /\ validation = NoValidation
  /\ entry = IdleEntry
  /\ chunkInfo = NoChunkInfo
  /\ docstore = NoDocstore
  /\ provider = IdleProvider
  /\ sample = IdleSample

\* One process: the invocations of query follow one another (the CLI, the
\* sample run), beside the runs of build-index.
Init ==
  /\ InitCommon
  /\ env = ValidEnv
  /\ docOnDisk = TRUE
  /\ vectorStore = StoreAbsent
  /\ proc = [p \in Procs |-> IdleProc(IF p = "p1" THEN MaxQueries ELSE 0)]
  /\ rag = IdleRag
  /\ evaluator = IdleEvaluator
  /\ chunker = IdleChunker

QueryStep(p) ==
  \/ QueryStart(p)
  \/ LoadVectorStore(p)
  \/ HNSWLoad(p)
  \/ Retrieve(p)
  \/ Generate(p)
  \/ Evaluate(p)
  \/ LogMkdir(p)
  \/ LogRead(p)
  \/ LogPush(p)
  \/ LogWrite(p)
  \/ Return(p)

Next ==
  \/ Tick
  \/ BuildPrepare
  \/ BuildSaveMkdir
  \/ BuildSaveFiles
  \/ BuildChunkInfo
  \/ \E p \in Procs : QueryStep(p)

Spec == Init /\ [][Next]_vars

\* Two processes run query() at the same time against a built index: two
\* CLI invocations started side by side. Their file-system calls interleave.
InitRace ==
  /\ InitCommon
  /\ env = ValidEnv
  /\ docOnDisk = TRUE
  /\ vectorStore = StoreDir("complete")
  /\ proc = [p \in Procs |-> IdleProc(1)]
  /\ rag = IdleRag
  /\ evaluator = IdleEvaluator
  /\ chunker = IdleChunker

NextRace == \E p \in Procs : QueryStep(p)

SpecRace == InitRace /\ [][NextRace]_vars

\* An entry point starts in some environment and validates it.
InitEnv ==
  /\ InitCommon
  /\ logFile = NoFile
  /\ outDir = FALSE
  /\ vectorStore = StoreAbsent
  /\ proc = [p \in Procs |-> IdleProc(0)]
  /\ docOnDisk \in BOOLEAN
  /\ rag = IdleRag
  /\ evaluator = IdleEvaluator
  /\ chunker = IdleChunker
  /\ \E others \in OtherSettings, size \in SettingStrings,
        overlap \in SettingStrings :
       env = [others EXCEPT !.CHUNK_SIZE = size, !.CHUNK_OVERLAP = overlap]

NextEnv ==
  \/ RunValidateEnvironmentVariables
  \/ RunLoadAndValidateEnv

SpecEnv == InitEnv /\ [][NextEnv]_vars

\* One query over a loaded index: the index holds 1..MaxChunks documents, k
\* is a valid RETRIEVAL_K.
InitRetrieve ==
  /\ InitCommon
  /\ logFile = NoFile
  /\ outDir = FALSE
  /\ env = ValidEnv
  /\ docOnDisk = TRUE
  /\ vectorStore = StoreDir("complete")
  /\ proc = [p \in Procs |-> IdleProc(0)]
  /\ \E n \in 1..MaxChunks, bare \in 0..1, k \in 1..MaxK, q \in Questions :
       rag = [IdleRag EXCEPT !.pc = "retrieve",
                             !.index = StoredDocuments(n, bare),
                             !.retrievalK = k, !.question = q]
  /\ evaluator = IdleEvaluator
  /\ chunker = IdleChunker

NextRetrieve ==
  \/ RetrieverInvoke
  \/ RagChainInvoke
  \/ BuildResponse

SpecRetrieve == InitRetrieve /\ [][NextRetrieve]_vars

\* evaluateResponse on one completion: the object (or none) somewhere in
\* prose.
InitEvaluate ==
  /\ InitCommon
  /\ logFile = NoFile
  /\ outDir = FALSE
  /\ env = ValidEnv
  /\ docOnDisk = TRUE
  /\ vectorStore = StoreDir("complete")
  /\ proc = [p \in Procs |-> IdleProc(0)]
  /\ rag = IdleRag
  /\ \E b \in Prose(MaxProse), o \in ObjectTexts, a \in Prose(MaxProse) :
       evaluator = [IdleEvaluator EXCEPT !.pc = "invoke", !.before = b,
                                         !.object = o, !.after = a]
  /\ chunker = IdleChunker

NextEvaluate ==
  \/ EvaluationChainInvoke
  \/ EvaluationParse

SpecEvaluate == InitEvaluate /\ [][NextEvaluate]_vars

\* The chunking step of build-index on one document, under a chunk
\* configuration the validator accepts.
InitChunk ==
  /\ InitCommon
  /\ logFile = NoFile
  /\ outDir = FALSE
  /\ env = ValidEnv
  /\ docOnDisk = TRUE
  /\ vectorStore = StoreAbsent
  /\ proc = [p \in Procs |-> IdleProc(0)]
  /\ rag = IdleRag
  /\ evaluator = IdleEvaluator
  /\ \E doc \in Documents, size \in 1..MaxChunkSize :
       \E overlap \in 0..(size - 1) :
         chunker = [IdleChunker EXCEPT !.pc = "split", !.document = doc,
                                       !.chunkSize = size,
                                       !.chunkOverlap = overlap]

NextChunk ==
  \/ SplitDocuments
  \/ TagChunks
  \/ FromDocuments

SpecChunk == InitChunk /\ [][NextChunk]_vars

\* One call through a provider client, for each call of query() and each
\* setting of the two keys the validators accept.
InitProvider ==
  /\ InitCommon
  /\ logFile = NoFile
  /\ outDir = FALSE
  /\ \E o \in {<<>>, OpenAIKey}, r \in {<<>>, OpenRouterKey} :
       env = [ValidEnv EXCEPT !["OPENAI_API_KEY"] = o,
                              !["OPENROUTER_API_KEY"] = r]
  /\ loadAndValidateEnv(env, TRUE).ok
  /\ docOnDisk = TRUE
  /\ vectorStore = StoreDir("complete")
  /\ proc = [p \in Procs |-> IdleProc(0)]
  /\ rag = IdleRag
  /\ evaluator = IdleEvaluator
  /\ chunker = IdleChunker

NextProvider ==
  \/ GetClient
  \/ SendRequest

SpecProvider == InitProvider /\ [][NextProvider]_vars

\* Runs of build-index on a document that may be edited between them, each
\* followed down to the files it leaves.
InitBuild ==
  /\ InitCommon
  /\ logFile = NoFile
  /\ outDir = FALSE
  /\ env = ValidEnv
  /\ docOnDisk = TRUE
  /\ vectorStore = StoreAbsent
  /\ proc = [p \in Procs |-> IdleProc(0)]
  /\ rag = IdleRag
  /\ evaluator = IdleEvaluator
  /\ \E doc \in BuildDocuments, size \in 1..MaxBuildChunkSize :
       \E overlap \in 0..(size - 1) :
         chunker = [IdleChunker EXCEPT !.pc = "split", !.document = doc,
                                       !.chunkSize = size,
                                       !.chunkOverlap = overlap]

NextBuild ==
  \/ SplitDocuments
  \/ TagChunks
  \/ FromDocuments
  \/ VectorStoreSave
  \/ WriteChunkInfo
  \/ BuildAgain

SpecBuild == InitBuild /\ [][NextBuild]_vars

\* build-index runs on a document of two words while another process puts
\* one question to query().
InitStores ==
  /\ InitCommon
  /\ env = ValidEnv
  /\ docOnDisk = TRUE
  /\ vectorStore = StoreAbsent
  /\ proc = [p \in Procs |-> IdleProc(IF p = "p1" THEN 1 ELSE 0)]
  /\ rag = IdleRag
  /\ evaluator = IdleEvaluator
  /\ \E size \in 1..MaxBuildChunkSize :
       chunker = [IdleChunker EXCEPT !.pc = "split",
                                     !.document = <<"a", " ", "a">>,
                                     !.chunkSize = size]

NextStores ==
  \/ NextBuild
  \/ QueryStep("p1")

SpecStores == InitStores /\ [][NextStores]_vars

\* The sample run: one process puts the questions of its list to query(),
\* over an index that was built or not.
InitSample ==
  /\ InitCommon
  /\ env = ValidEnv
  /\ docOnDisk = TRUE
  /\ vectorStore \in {StoreAbsent, StoreDir("complete")}
  /\ proc = [p \in Procs |-> IdleProc(0)]
  /\ rag = IdleRag
  /\ evaluator = IdleEvaluator
  /\ chunker = IdleChunker

SampleStep(p) ==
  \/ SampleQuery(p)
  \/ LoadVectorStore(p)
  \/ HNSWLoad(p)
  \/ Retrieve(p)
  \/ Generate(p)
  \/ Evaluate(p)
  \/ LogMkdir(p)
  \/ LogRead(p)
  \/ LogPush(p)
  \/ LogWrite(p)
  \/ Return(p)
  \/ SampleAwait(p)

NextSample == SampleStep("p1")

SpecSample == InitSample /\ [][NextSample]_vars

\* Two query() calls overlap in one Node process (started together, as with
\* Promise.all) over a built index.
InitOverlap ==
  /\ InitCommon
  /\ env = ValidEnv
  /\ docOnDisk = TRUE
  /\ vectorStore = StoreDir("complete")
  /\ proc = [p \in Procs |-> IdleProc(1)]
  /\ rag = IdleRag
  /\ evaluator = IdleEvaluator
  /\ chunker = IdleChunker

NextOverlap == \E p \in Procs : Turn(p) /\ QueryStep(p)

SpecOverlap == InitOverlap /\ [][NextOverlap]_vars

\* ------------------------------------------------------------------- claims
\* Every logQueryOutput call issued so far has completed its write.
AllAppendsCompleted == \A i \in 1..Len(appendCalls) : appendCalls[i].ok

\* C1: Log append preserves history. When the log file holds a JSON array L
\* at the time logQueryOutput is called and the call completes its write,
\* the file then holds exactly L followed by one new entry built from the
\* record (same question, same evaluation); and after any sequence of
\* completed sequential appends to a file that started as an array L0, the
\* file holds L0 followed by one entry per append, in call order.
C1_AppendPreservesHistory ==
  /\ \A p \in Procs :
       LET r == proc[p] IN
       (r.pc = "return" /\ r.logWrote /\ IsArrayFile(r.logAtCall))
         => LET L == Items(r.logAtCall) IN
            /\ IsArrayFile(logFile)
            /\ Len(Items(logFile)) = Len(L) + 1
            /\ SubSeq(Items(logFile), 1, Len(L)) = L
            /\ Items(logFile)[Len(L) + 1].q = r.question
            /\ Items(logFile)[Len(L) + 1].evaluation = r.evaluation
  /\ (IsArrayFile(initialLog) /\ AllAppendsCompleted)
       => LET L0 == Items(initialLog) IN
          /\ IsArrayFile(logFile)
          /\ Len(Items(logFile)) = Len(L0) + Len(appendCalls)
          /\ SubSeq(Items(logFile), 1, Len(L0)) = L0
          /\ \A i \in 1..Len(appendCalls) :
               Items(logFile)[Len(L0) + i].q = appendCalls[i].q

\* C1 witness: a call has completed its write onto an array that already
\* held two entries (an old one and an earlier append of this run).
C1_Witness ==
  \E p \in Procs :
    /\ proc[p].pc = "return" /\ proc[p].logWrote
    /\ IsArrayFile(proc[p].logAtCall)
    /\ Len(Items(proc[p].logAtCall)) = 2
    /\ Len(Items(logFile)) = 3

\* C2: Appending N records sequentially to an initially-absent log path
\* yields a file whose array has exactly N elements, in append order, each
\* with a timestamp no earlier than the moment its call was issued, and the
\* timestamps do not decrease along the array.
C2_SequentialAppends ==
  (initialLog = NoFile /\ AllAppendsCompleted /\ Len(appendCalls) > 0)
    => /\ IsArrayFile(logFile)
       /\ Len(Items(logFile)) = Len(appendCalls)
       /\ \A i \in 1..Len(appendCalls) :
            /\ Items(logFile)[i].q = appendCalls[i].q
            /\ Items(logFile)[i].ts >= appendCalls[i].at
       /\ \A i \in 1..(Len(appendCalls) - 1) :
            Items(logFile)[i].ts <= Items(logFile)[i + 1].ts

\* C2 witness: two appends to an initially absent file have completed, the
\* second issued after the clock had advanced and stamped later still.
C2_Witness ==
  /\ initialLog = NoFile
  /\ Len(appendCalls) = 2
  /\ AllAppendsCompleted
  /\ appendCalls[2].at > 0
  /\ IsArrayFile(logFile)
  /\ Len(Items(logFile)) = 2
  /\ Items(logFile)[2].ts > appendCalls[2].at

\* C3: A logging failure never fails the query. Whichever step of
\* logQueryOutput fails (mkdir, read, parse, push onto a non-array, write),
\* logQueryOutput returns normally and query() returns the QueryResponse it
\* built.
C3_LogFailureNeverFailsQuery ==
  \A p \in Procs :
    proc[p].logError # "none"
      => /\ proc[p].pc \in {"return", "done"}
         /\ proc[p].response
         /\ proc[p].result # "threw"
         /\ proc[p].pc = "done" => proc[p].result = "returned"

\* C3 witness: a query has returned its response although the push onto a
\* parsed value that is no array threw inside logQueryOutput.
C3_Witness ==
  \E p \in Procs :
    /\ proc[p].pc = "done"
    /\ proc[p].logError = "push"
    /\ proc[p].result = "returned"

\* C5: Evaluation failure degrades gracefully. When evaluateResponse fails
\* (provider error, no JSON in the output, invalid JSON), query() still
\* returns the answer, still calls logQueryOutput once, and the entry it
\* writes carries no evaluation field; the entry is in the file unless the
\* logging itself failed.
C5_EvaluationFailureDegrades ==
  \A p \in Procs :
    LET r == proc[p] IN
    r.evalFailed
      => /\ r.response
         /\ r.result # "threw"
         /\ ~r.evaluation.defined
         /\ r.pc = "done" => (r.result = "returned" /\ r.logCalls = 1)
         /\ (r.pc \in {"return", "done"} /\ r.logError = "none")
              => r.logWrote
         /\ (r.pc = "return" /\ r.logWrote)
              => /\ IsArrayFile(logFile)
                 /\ Len(Items(logFile)) > 0
                 /\ Items(logFile)[Len(Items(logFile))].q = r.question
                 /\ ~Items(logFile)[Len(Items(logFile))].evaluation.defined

\* C5 witness: the evaluation failed and the record of that query, without
\* evaluation, has just been written to the file.
C5_Witness ==
  \E p \in Procs :
    /\ proc[p].evalFailed
    /\ proc[p].pc = "return"
    /\ proc[p].logWrote
    /\ Items(logFile)[Len(Items(logFile))].q = proc[p].question

\* C6: A provider error during retrieval (question embedding) or answer
\* generation aborts the query: the error leaves query(), the evaluator is
\* never invoked, nothing is logged and no QueryResponse is returned.
C6_ProviderErrorAborts ==
  \A p \in Procs :
    LET r == proc[p] IN
    r.providerFailed
      => /\ r.pc = "done"
         /\ r.result = "threw"
         /\ r.error = "ProviderError"
         /\ ~r.response
         /\ r.evaluatorCalls = 0
         /\ r.logCalls = 0

\* C6 witness: the completion request of the answer failed after the
\* retrieval had succeeded, with evaluation enabled.
C6_Witness ==
  \E p \in Procs :
    /\ proc[p].providerFailed
    /\ proc[p].embedCalls = 1
    /\ proc[p].completionCalls = 1
    /\ proc[p].enableEvaluation
    /\ proc[p].result = "threw"

\* C7: Every query is logged exactly once. A query() call that obtained an
\* answer calls logQueryOutput exactly once before it returns; a call that
\* failed before an answer was produced (missing index, embedding or
\* completion error) never calls it and leaves the log file as it found it.
C7_LoggedExactlyOnce ==
  \A p \in Procs :
    LET r == proc[p] IN
    /\ r.logCalls <= 1
    /\ r.logCalls = 1 => r.response
    /\ r.pc = "return" => r.logCalls = 1
    /\ (r.pc = "done" /\ r.response)
         => (r.logCalls = 1 /\ r.result = "returned")
    /\ (r.pc = "done" /\ ~r.response)
         => (r.logCalls = 0 /\ r.result = "threw" /\ logFile = r.logAtStart)

\* C7 witness: the second query of a run failed at the completion request;
\* the log still holds the one entry of the first query.
C7_Witness ==
  \E p \in Procs :
    /\ proc[p].pc = "done"
    /\ proc[p].question = 2
    /\ proc[p].error = "ProviderError"
    /\ proc[p].logCalls = 0
    /\ Len(appendCalls) = 1
    /\ AllAppendsCompleted
    /\ IsArrayFile(logFile)

\* The steps of query() that load the index (query/index.ts:225).
LoadPhase == {"loadVectorStore", "hnswLoad"}

\* No build-index run is under way.
BuildAtRest == build.pc \in {"idle", "exited"}

\* C8 (the claim as stated): when no index exists at the vector store path,
\* loadVectorStore ends with the not-found error, before any provider
\* client is constructed and before any embedding or completion request.
C8_NoIndexFailsBeforeProviders ==
  [][\A p \in Procs :
       (/\ proc[p].pc = "loadVectorStore"
        /\ proc'[p].pc # "loadVectorStore"
        /\ BuildAtRest
        /\ ~StoreComplete(vectorStore))
         => /\ proc'[p].result = "threw"
            /\ proc'[p].error = "NotFound"
            /\ proc'[p].clients = 0
            /\ proc'[p].embedCalls = 0
            /\ proc'[p].completionCalls = 0]_vars

\* C9 (the claim as stated): after any sequence of build-index runs, a
\* query whose index load ends while no complete index is persisted fails
\* with the not-found error that tells the user to build the index first.
C9_NoCompleteIndexIsNotFound ==
  [][\A p \in Procs :
       (/\ proc[p].pc \in LoadPhase
        /\ proc'[p].pc \notin LoadPhase
        /\ BuildAtRest
        /\ ~StoreComplete(vectorStore))
         => /\ proc'[p].result = "threw"
            /\ proc'[p].error = "NotFound"]_vars

\* The entries of the array a process has written (or is about to write).
Snapshot(p) == proc[p].queries.items

\* Process p took its copy of the log without the entry of any other
\* process in it.
ReadBeforeOthersWrote(p) ==
  \A o \in Procs \ {p} :
    \A i \in 1..Len(Snapshot(p)) : Snapshot(p)[i].q # proc[o].question

\* Every process has completed its logQueryOutput call with a write and
\* without error.
AllWroteWithoutError ==
  \A p \in Procs :
    /\ proc[p].pc \in {"return", "done"}
    /\ proc[p].logWrote
    /\ proc[p].logError = "none"

\* C4: The read-modify-write of the log is not safe under concurrent
\* writers. Whenever two processes have both read the file before either
\* wrote it and both complete their appends without error, the final array
\* holds the earlier content plus only one of the two records: the other
\* update is lost.
C4_LostUpdate ==
  (AllWroteWithoutError /\ \A p \in Procs : ReadBeforeOthersWrote(p))
    => /\ IsArrayFile(logFile)
       /\ \E p \in Procs : Items(logFile) = Snapshot(p)
       /\ Cardinality({p \in Procs :
                         \E i \in 1..Len(Items(logFile)) :
                           Items(logFile)[i].q = proc[p].question}) = 1

\* C4 witness: both processes have returned from query(), both appends
\* completed without error on an initially absent file, and the array
\* holds one record.
C4_Witness ==
  /\ initialLog = NoFile
  /\ \A p \in Procs : proc[p].pc = "done" /\ proc[p].result = "returned"
  /\ AllWroteWithoutError
  /\ IsArrayFile(logFile)
  /\ Len(Items(logFile)) = 1

\* Every setting other than CHUNK_SIZE and CHUNK_OVERLAP is valid: the
\* document exists, the names are set, RETRIEVAL_K is a positive numeral and
\* an API key is set.
OtherSettingsValid ==
  /\ docOnDisk
  /\ \A v \in {"DOCUMENT_PATH", "VECTOR_STORE_PATH", "EMBEDDING_MODEL",
               "LLM_MODEL"} : env[v] # <<>>
  /\ \E k \in 1..MaxSetting : env["RETRIEVAL_K"] = Numeral(k)
  /\ env["OPENROUTER_API_KEY"] # <<>> \/ env["OPENAI_API_KEY"] # <<>>

\* C10: Both validators (validateEnvironmentVariables of build-index,
\* loadAndValidateEnv of query) accept a chunk configuration only if
\* CHUNK_SIZE > 0 and 0 <= CHUNK_OVERLAP < CHUNK_SIZE; with all other
\* settings valid, CHUNK_OVERLAP = CHUNK_SIZE is rejected and
\* CHUNK_OVERLAP = CHUNK_SIZE - 1 is accepted, for every CHUNK_SIZE >= 1.
C10_ChunkOverlapBelowSize ==
  validation.by # "none"
    => LET res == validation.result IN
       /\ res.ok => /\ res.CHUNK_SIZE > 0
                    /\ 0 <= res.CHUNK_OVERLAP
                    /\ res.CHUNK_OVERLAP < res.CHUNK_SIZE
       /\ \A n, m \in -1..MaxSetting :
            (/\ env["CHUNK_SIZE"] = Numeral(n)
             /\ env["CHUNK_OVERLAP"] = Numeral(m)
             /\ res.ok)
              => (n > 0 /\ 0 <= m /\ m < n
                  /\ res.CHUNK_SIZE = n /\ res.CHUNK_OVERLAP = m)
       /\ \A n \in 1..MaxSetting :
            (OtherSettingsValid /\ env["CHUNK_SIZE"] = Numeral(n))
              => /\ env["CHUNK_OVERLAP"] = Numeral(n)
                      => (~res.ok /\ res.message =
                            "CHUNK_OVERLAP must be less than CHUNK_SIZE")
                 /\ env["CHUNK_OVERLAP"] = Numeral(n - 1) => res.ok

\* C10 witness: loadAndValidateEnv has accepted CHUNK_SIZE=10 with
\* CHUNK_OVERLAP=9.
C10_Witness ==
  /\ validation.by = "query"
  /\ validation.result.ok
  /\ env["CHUNK_SIZE"] = <<"1", "0">>
  /\ env["CHUNK_OVERLAP"] = <<"9">>

\* The text is the numeral of a number that is not positive.
NotPositive(str) == \E n \in -1..0 : str = Numeral(n)

\* C11 (the claim as stated): every entry point rejects, before any document,
\* index or provider work, every environment that violates a row of the
\* configuration table (no file at DOCUMENT_PATH, empty EMBEDDING_MODEL or
\* LLM_MODEL, CHUNK_SIZE not > 0, CHUNK_OVERLAP outside 0..CHUNK_SIZE-1,
\* RETRIEVAL_K not > 0, neither API key set), and the process then exits
\* non-zero.
C11_EveryEntryPointRejects ==
  LET violated ==
        \/ ~docOnDisk
        \/ env["DOCUMENT_PATH"] = <<>>
        \/ env["EMBEDDING_MODEL"] = <<>>
        \/ env["LLM_MODEL"] = <<>>
        \/ env["CHUNK_SIZE"] = <<>> \/ NotPositive(env["CHUNK_SIZE"])
        \/ env["CHUNK_OVERLAP"] = <<>>
        \/ \E n, m \in -1..MaxSetting :
             /\ env["CHUNK_SIZE"] = Numeral(n)
             /\ env["CHUNK_OVERLAP"] = Numeral(m)
             /\ (m < 0 \/ m >= n)
        \/ env["RETRIEVAL_K"] = <<>> \/ NotPositive(env["RETRIEVAL_K"])
        \/ (env["OPENROUTER_API_KEY"] = <<>> /\ env["OPENAI_API_KEY"] = <<>>)
  IN  (validation.by # "none" /\ violated)
        => /\ ~validation.result.ok
           /\ entry.pc = "exited"
           /\ entry.exitCode # 0
           /\ ~entry.work


\* C12: For every query, the number of chunks in chunks_related is at most
\* env.retrievalK and at most the number of chunks stored in the index.
C12_AtMostKChunks ==
  rag.pc = "done"
    => /\ Len(rag.chunks_related) <= rag.retrievalK
       /\ Len(rag.chunks_related) <= Len(rag.index)

\* C12 witness: a query with k = 2 over an index of four chunks has
\* returned two chunks.
C12_Witness ==
  /\ rag.pc = "done"
  /\ rag.retrievalK = 2
  /\ Len(rag.index) = 4
  /\ Len(rag.chunks_related) = 2

\* C13: The retriever's output is passed through untouched: chunks_related
\* has the length and the order of the documents the index returned,
\* element i has the content of document i's pageContent and its metadata
\* (or {} when absent); nothing is dropped, duplicated, reordered or merged.
C13_ChunksPassedThrough ==
  rag.pc = "done"
    => /\ Len(rag.chunks_related) = Len(rag.retrievedDocs)
       /\ \A i \in 1..Len(rag.retrievedDocs) :
            LET doc == rag.retrievedDocs[i]
                chunk == rag.chunks_related[i] IN
            /\ chunk.content = doc.pageContent
            /\ doc.metadata.defined => chunk.metadata = doc.metadata
            /\ ~doc.metadata.defined
                 => (chunk.metadata.defined /\ chunk.metadata.fields = {})

\* C13 witness: the index returned four documents, not in stored order, two
\* of them with the same text and one without metadata, and the response
\* holds four chunks.
C13_Witness ==
  /\ rag.pc = "done"
  /\ Len(rag.retrievedDocs) = 4
  /\ rag.retrievedDocs[1].pageContent = <<"C">>
  /\ rag.retrievedDocs[2].pageContent = <<"A">>
  /\ rag.retrievedDocs[3].pageContent = <<"A">>
  /\ \E i \in 1..4 : ~rag.retrievedDocs[i].metadata.defined
  /\ Len(rag.chunks_related) = 4

\* The chunk texts of the documents, each followed by a blank line but the
\* last.
RECURSIVE BlankLineSeparated(_, _)
BlankLineSeparated(docs, i) ==
  IF i > Len(docs) THEN <<>>
  ELSE docs[i].pageContent
         \o (IF i < Len(docs) THEN <<"\n", "\n">> ELSE <<>>)
         \o BlankLineSeparated(docs, i + 1)

\* C14: The context of the answer prompt is the retrieved chunk contents
\* joined by a blank line, in retrieval order, and the question is
\* substituted verbatim: the prompt is the template's text with A, B, C
\* separated by "\n\n" at the place of the context and q unchanged at the
\* place of the question.
C14_PromptContext ==
  rag.pc \in {"format", "done"}
    => rag.prompt = <<"T", ":">> \o BlankLineSeparated(rag.retrievedDocs, 1)
                      \o <<"Q", ":">> \o rag.question \o <<".">>

\* C14 witness: the chunks A, B.., C were retrieved in that order for a
\* question shaped like a placeholder, and the prompt was rendered.
C14_Witness ==
  /\ rag.pc = "done"
  /\ Len(rag.retrievedDocs) = 3
  /\ rag.retrievedDocs[1].pageContent = <<"A">>
  /\ rag.retrievedDocs[2].pageContent = <<"B", "\n", "\n", "b">>
  /\ rag.retrievedDocs[3].pageContent = <<"C">>
  /\ rag.question = <<"{", "q", "}">>
  /\ rag.prompt = <<"T", ":", "A", "\n", "\n", "B", "\n", "\n", "b", "\n",
                    "\n", "C", "Q", ":", "{", "q", "}", ".">>


\* C15 (the claim as stated): evaluateResponse extracts the score object
\* wherever it is embedded. For a completion that is the JSON object
\* {overall_score, chunk_relevance, answer_accuracy, completeness, reason}
\* at any position inside arbitrary surrounding prose, the result is
\* EvaluationResult{score = overall_score, reason = reason, breakdown =
\* {chunk_relevance, answer_accuracy, completeness}} with those values.
C15_ScoreObjectExtractedAnywhere ==
  LET obj == evaluator.object IN
  (/\ evaluator.pc = "done"
   /\ Len(obj) = 7
   /\ \A i \in 2..5 : obj[i].type = "number")
    => /\ ~evaluator.outcome.threw
       /\ evaluator.outcome.result.score = JsonValue(obj[2])
       /\ evaluator.outcome.result.breakdown.chunk_relevance = JsonValue(obj[3])
       /\ evaluator.outcome.result.breakdown.answer_accuracy = JsonValue(obj[4])
       /\ evaluator.outcome.result.breakdown.completeness = JsonValue(obj[5])
       /\ evaluator.outcome.result.reason = JsonValue(obj[6])

\* C16: evaluateResponse throws, returning no EvaluationResult, whenever the
\* completion holds no {...} substring (no "{" with a "}" after it), and
\* whenever the matched substring (from the first "{" to the last "}") is
\* not valid JSON.
C16_NoJsonThrows ==
  LET t == evaluator.evaluationText
      braces == {<<i, j>> \in (1..Len(t)) \X (1..Len(t)) :
                   i < j /\ t[i] = Char("{") /\ t[j] = Char("}")}
      invalid ==
        \E ij \in braces :
          /\ \A i \in 1..(ij[1] - 1) : t[i] # Char("{")
          /\ \A j \in (ij[2] + 1)..Len(t) : t[j] # Char("}")
          /\ \E m \in (ij[1] + 1)..(ij[2] - 1) : ~t[m].member
  IN  (evaluator.pc = "done" /\ (braces = {} \/ invalid))
        => /\ evaluator.outcome.threw
           /\ evaluator.outcome.result = NoResult

\* C16 witness: the completion holds braces but no "{" with a "}" after it,
\* and evaluateResponse threw that no JSON could be extracted.
C16_Witness ==
  /\ evaluator.pc = "done"
  /\ evaluator.evaluationText = <<Char("}"), Char("{")>>
  /\ evaluator.outcome.threw
  /\ evaluator.outcome.message =
       "Failed to extract JSON from evaluation response"

\* C17 (the claim as stated): every EvaluationResult evaluateResponse
\* returns has score, chunk_relevance, answer_accuracy and completeness
\* each a number within 0..10 and a string reason.
C17_ScoresWithinScale ==
  LET res == evaluator.outcome.result
      onScale(v) == v.type = "number" /\ 0 <= v.num /\ v.num <= 100
  IN  (evaluator.pc = "done" /\ ~evaluator.outcome.threw)
        => /\ onScale(res.score)
           /\ onScale(res.breakdown.chunk_relevance)
           /\ onScale(res.breakdown.answer_accuracy)
           /\ onScale(res.breakdown.completeness)
           /\ res.reason.type = "string"


\* C18: The chunks build-index stores carry chunkIndex values that form the
\* contiguous 0-based sequence 0..n-1 in the splitter's emission order, each
\* with source equal to DOCUMENT_PATH.
C18_ChunkIndexContiguous ==
  chunker.pc = "done"
    => /\ Len(chunker.stored) = Len(chunker.chunks)
       /\ \A i \in 1..Len(chunker.stored) :
            /\ chunker.stored[i].metadata.chunkIndex = i - 1
            /\ chunker.stored[i].metadata.source = env["DOCUMENT_PATH"]
            /\ chunker.stored[i].pageContent = chunker.chunks[i]

\* C18 witness: three chunks of different texts were stored.
C18_Witness ==
  /\ chunker.pc = "done"
  /\ Len(chunker.stored) = 3
  /\ chunker.stored[1].pageContent # chunker.stored[3].pageContent
  /\ chunker.stored[3].metadata.chunkIndex = 2

\* C19 (the claim as stated): for any document, an empty or
\* whitespace-only one included, and any valid (chunkSize, chunkOverlap)
\* with overlap < size, the chunking step produces at least one chunk.
C19_AtLeastOneChunk ==
  chunker.pc \in {"tag", "store", "done", "failed"}
    => Len(chunker.chunks) >= 1

\* C20 (the claim as stated): for a document whose length is <= chunkSize,
\* the chunking step produces exactly one chunk and that chunk's content is
\* the full document text.
C20_ShortDocumentOneChunk ==
  (/\ chunker.pc \in {"tag", "store", "done", "failed"}
   /\ Len(chunker.document) <= chunker.chunkSize)
    => chunker.chunks = <<chunker.document>>


\* C21 (the claim as stated): no retry anywhere. In one query() call the
\* completion provider receives at most one request for the answer and at
\* most one for the evaluation, the embedding provider at most one for the
\* question; a request that failed is never sent again.
C21_NoRetry ==
  /\ provider.requests <= 1
  /\ provider.failures > 0
       => (provider.pc = "settled" /\ provider.outcome = "rejected")

\* C26: Provider selection follows the key that is present, the same way
\* for embeddings and completions: both clients go to OpenRouter with the
\* OpenRouter key whenever that key is set (also when an OpenAI key is set
\* as well) and to OpenAI with the OpenAI key otherwise; no request pairs
\* the key of one provider with the endpoint of the other.
C26_ProviderSelection ==
  provider.pc # "idle"
    => LET a == provider.args
           c == provider.client
       IN  /\ a.openRouterApiKey # <<>>
                => /\ c.baseURL = OpenRouterBaseURL
                   /\ c.apiKey = a.openRouterApiKey
           /\ a.openRouterApiKey = <<>>
                => /\ c.baseURL = OpenAIBaseURL
                   /\ c.apiKey = a.openaiApiKey
           /\ GetEmbeddingsClient(a).baseURL = GetOpenApiClient(a).baseURL
           /\ GetEmbeddingsClient(a).apiKey = GetOpenApiClient(a).apiKey
           /\ provider.requests > 0
                => /\ provider.request.baseURL = OpenRouterBaseURL
                        <=> provider.request.apiKey = OpenRouterKey
                   /\ provider.request.baseURL = OpenAIBaseURL
                        <=> provider.request.apiKey = OpenAIKey

\* C26 witness: with both keys set, the request for the answer went to
\* OpenRouter with the OpenRouter key.
C26_Witness ==
  /\ provider.call = "answer"
  /\ provider.args.openaiApiKey = OpenAIKey
  /\ provider.args.openRouterApiKey = OpenRouterKey
  /\ provider.requests = 1
  /\ provider.request.baseURL = OpenRouterBaseURL
  /\ provider.request.apiKey = OpenRouterKey
  /\ provider.outcome = "resolved"


\* C22: Store ownership. No step of a query() execution, successful or
\* failed, changes the vector index directory, the documents persisted in
\* it or chunk-info.json, and no step of a build-index run changes the
\* query-log file or its directory; the index and chunk-info.json change
\* only in the save and chunk-info steps of build-index, the log only in
\* the write of logQueryOutput.
C22_StoreOwnership ==
  [][/\ proc' # proc
          => /\ vectorStore' = vectorStore
             /\ docstore' = docstore
             /\ chunkInfo' = chunkInfo
     /\ chunker' # chunker
          => /\ logFile' = logFile
             /\ outDir' = outDir
     /\ (vectorStore' # vectorStore \/ docstore' # docstore
           \/ chunkInfo' # chunkInfo)
          => /\ chunker.pc \in {"done", "chunk_info"}
             /\ chunker' # chunker
     /\ logFile' # logFile
          => \E p \in Procs :
               /\ proc[p].pc = "log_write"
               /\ proc'[p].pc = "return"]_vars

\* C22 witness: a second build run has written the index and
\* chunk-info.json, and the query has written its record to the log and
\* returned.
C22_Witness ==
  /\ chunker.pc = "finished"
  /\ chunker.runs = 2
  /\ docstore.exists
  /\ chunkInfo.exists
  /\ proc["p1"].pc = "done"
  /\ proc["p1"].logWrote
  /\ IsArrayFile(logFile)


\* The positions of query() inside logQueryOutput.
InLog == {"log_read", "log_push", "log_write"}

\* C23: Within one query() call the steps happen strictly in the order
\* index load, question retrieval, answer generation, evaluation (when
\* enabled), log append, return: a step starts only when every earlier one
\* has ended, the log append never starts before the evaluation has
\* returned or failed, and the call returns only after the log append.
C23_StepOrder ==
  \A p \in Procs :
    LET r == proc[p] IN
    /\ r.pc \in {"loadVectorStore", "hnswLoad", "retrieve"}
         => /\ r.embedCalls = 0 /\ r.completionCalls = 0
            /\ r.evaluatorCalls = 0 /\ r.logCalls = 0
            /\ ~r.response
    /\ r.pc = "loadVectorStore" => r.clients = 0
    /\ r.pc = "retrieve" => r.clients = 2
    /\ r.pc = "generate"
         => /\ r.embedCalls = 1 /\ r.completionCalls = 0
            /\ r.evaluatorCalls = 0 /\ r.logCalls = 0
    /\ r.pc = "evaluate"
         => /\ r.enableEvaluation /\ r.response
            /\ r.embedCalls = 1 /\ r.completionCalls = 1
            /\ r.evaluatorCalls = 0 /\ r.logCalls = 0
    /\ (r.pc \in InLog \cup {"logQueryOutput", "return"} \/ r.logCalls > 0)
         => /\ r.response
            /\ r.embedCalls = 1
            /\ r.enableEvaluation
                 => /\ r.evaluatorCalls = 1
                    /\ r.evaluation.defined \/ r.evalFailed
            /\ ~r.enableEvaluation => r.evaluatorCalls = 0
    /\ r.pc = "logQueryOutput" => r.logCalls = 0
    /\ r.pc \in InLog \cup {"return"} => r.logCalls = 1
    /\ r.result = "returned" => (r.pc = "done" /\ r.logCalls = 1)

\* C23 witness: a call is inside logQueryOutput after its evaluation
\* failed, having made its one embedding call and its two completion
\* calls before.
C23_Witness ==
  \E p \in Procs :
    /\ proc[p].pc = "log_push"
    /\ proc[p].enableEvaluation
    /\ proc[p].evalFailed
    /\ proc[p].embedCalls = 1
    /\ proc[p].completionCalls = 2
    /\ proc[p].logCalls = 1


\* C24: A logged record carries an evaluation field if and only if
\* evaluation was enabled for that query and evaluateResponse returned a
\* result; with enableEvaluation = false the evaluator and its completion
\* request are never invoked and the record has no evaluation field.
C24_EvaluationFieldIff ==
  \A p \in Procs :
    LET r == proc[p]
        evaluated == r.enableEvaluation /\ r.evaluatorCalls = 1
                       /\ ~r.evalFailed
    IN  /\ r.pc = "log_write"
             => LET pushed == r.queries.items[Len(r.queries.items)] IN
                /\ pushed.q = r.question
                /\ pushed.evaluation.defined <=> evaluated
        /\ (r.pc = "return" /\ r.logWrote)
             => /\ IsArrayFile(logFile)
                /\ Len(Items(logFile)) > 0
                /\ LET last == Items(logFile)[Len(Items(logFile))] IN
                   /\ last.q = r.question
                   /\ last.evaluation.defined <=> evaluated
        /\ ~r.enableEvaluation
             => /\ r.evaluatorCalls = 0
                /\ r.completionCalls <= 1
                /\ ~r.evaluation.defined

\* C24 witness: the log holds the record of a first query with its
\* evaluation, and after it the record, without one, of a second query
\* that ran with evaluation disabled.
C24_Witness ==
  \E p \in Procs :
    /\ proc[p].pc = "return"
    /\ proc[p].logWrote
    /\ ~proc[p].enableEvaluation
    /\ IsArrayFile(logFile)
    /\ Len(Items(logFile)) = 2
    /\ Items(logFile)[1].evaluation.defined
    /\ ~Items(logFile)[2].evaluation.defined
    /\ Items(logFile)[2].q = proc[p].question


\* No build-index run is between its first and its last statement.
BuildEnded == chunker.pc \in {"finished", "failed"}

\* C25 (the claim as stated): after any sequence of build-index runs,
\* successful or failed at any step, the persisted chunk-info.json
\* describes the persisted index: its totalChunks and its entries (index
\* 0..n-1, length the length of the chunk's content) match the chunks
\* stored in the index on disk.
C25_ChunkInfoMatchesIndex ==
  (BuildEnded /\ chunkInfo.exists /\ docstore.exists)
    => /\ chunkInfo.totalChunks = Len(docstore.docs)
       /\ Len(chunkInfo.chunks) = Len(docstore.docs)
       /\ \A i \in 1..Len(chunkInfo.chunks) :
            /\ chunkInfo.chunks[i].index = i - 1
            /\ i <= Len(docstore.docs)
                 => /\ chunkInfo.chunks[i].index
                         = docstore.docs[i].metadata.chunkIndex
                    /\ chunkInfo.chunks[i].length
                         = Len(docstore.docs[i].pageContent)


\* The positions in SAMPLE_QUESTIONS of the records a file holds beyond
\* the entries that were there before the run.
NewRecords(file) ==
  SelectSeq(Items(file), LAMBDA e : e.q \in 1..Len(SAMPLE_QUESTIONS))

\* C27: The sample run processes its question list one at a time in list
\* order: query i+1, with its own index load from disk, starts only after
\* query i has returned; the records appended to the log appear in question
\* order; and when query i throws, no later question is processed.
C27_SampleRunSequential ==
  LET r == proc["p1"] IN
  /\ issued = sample.position
  /\ sample.position \in 0..Len(SAMPLE_QUESTIONS)
  /\ sample.pc = "awaiting"
       => /\ r.question = SAMPLE_QUESTIONS[sample.position]
          /\ sample.returned = sample.position - 1
  /\ sample.pc \in {"loop", "finished"}
       => /\ sample.returned = sample.position
          /\ r.pc \in {"idle", "done"}
          /\ r.result # "threw"
  /\ sample.pc = "finished" => sample.position = Len(SAMPLE_QUESTIONS)
  /\ r.result = "threw"
       => /\ sample.pc \in {"awaiting", "crashed"}
          /\ r.question = SAMPLE_QUESTIONS[sample.position]
  /\ sample.pc = "crashed"
       => /\ r.pc = "done" /\ r.result = "threw"
          /\ sample.returned = sample.position - 1
          /\ sample.exitCode = 1
  /\ r.pc \in {"retrieve", "generate", "evaluate"} => r.clients >= 2
  /\ \A i \in 1..Len(appendCalls) :
       /\ appendCalls[i].q <= sample.position
       /\ \A j \in (i + 1)..Len(appendCalls) :
            appendCalls[i].q < appendCalls[j].q
  /\ IsArrayFile(logFile)
       => \A i \in 1..Len(NewRecords(logFile)) :
            /\ NewRecords(logFile)[i].q <= sample.position
            /\ \A j \in (i + 1)..Len(NewRecords(logFile)) :
                 NewRecords(logFile)[i].q < NewRecords(logFile)[j].q

\* C27 witness: the third question threw after the first two had returned
\* and left their records, in order, behind the entry the file held
\* before; the run has ended there.
C27_Witness ==
  /\ sample.pc = "crashed"
  /\ sample.position = 3
  /\ proc["p1"].result = "threw"
  /\ proc["p1"].question = 3
  /\ IsArrayFile(logFile)
  /\ Len(Items(logFile)) = 3
  /\ Items(logFile)[2].q = 1
  /\ Items(logFile)[3].q = 2


\* The entries the log held before the model started.
InitialItems == IF IsArrayFile(initialLog) THEN Items(initialLog) ELSE <<>>

Unusable(f) == FileExists(f) /\ ~IsArrayFile(f)

\* C29: When the existing log file cannot be used (no valid JSON, or valid
\* JSON that is no array), logQueryOutput leaves the file unchanged and
\* drops the new record; so once the file is in such a state it stays as it
\* is and every later append is dropped as well.
C29_UnusableLogStaysUnchanged ==
  [][Unusable(logFile)
       => /\ logFile' = logFile
          /\ Len(appendCalls') >= Len(appendCalls)
          /\ \A i \in 1..Len(appendCalls) :
               appendCalls'[i].ok = appendCalls[i].ok
          /\ \A p \in Procs :
               (proc[p].pc \in InLog \cup {"logQueryOutput"}
                  /\ proc'[p].pc \notin InLog \cup {"logQueryOutput"})
                 => /\ proc'[p].pc = "return"
                    /\ proc'[p].logError \in {"read", "parse", "push"}
                    /\ ~proc'[p].logWrote]_vars

\* C29 witness: the file held a JSON object from the start; two queries
\* have called logQueryOutput, both records were dropped, the second at the
\* push, and the file is as it was.
C29_Witness ==
  /\ initialLog = JsonText(JsonObject, 0)
  /\ logFile = initialLog
  /\ Len(appendCalls) = 2
  /\ ~appendCalls[1].ok /\ ~appendCalls[2].ok
  /\ proc["p1"].pc = "done"
  /\ proc["p1"].result = "returned"
  /\ proc["p1"].logError = "push"

====
